---------------------------- MODULE Spec2Model ----------------------------
(***************************************************************************)
(* State-machine model of the flight-delay insurance repository:           *)
(*   - the FlightDelayInsurance contract (buyPolicy / claim) together with *)
(*     the FlightDelayInsuranceVerifier it delegates to;                   *)
(*   - the Merkle accumulator of scripts/circuits/zk-libs/merkle-tree      *)
(*     (createMerkleTree, insertLeaf, insertLeaves, getMerkleRoot,         *)
(*     createMerkleProof, verifyMerkleProof) over the IMT it wraps.        *)
(* Hashes are modelled as free constructors (records), so that two hash    *)
(* values are equal exactly when they were computed from equal inputs.     *)
(***************************************************************************)
EXTENDS Integers, Sequences, FiniteSets, TLC

VARIABLES
    \* ---- FlightDelayInsurance (contract storage and chain state) ----
    policies,          \* mapping(uint256 => Policy)
    policyTreeRoots,   \* mapping(uint256 policyId => bytes32)
    ethBalance,        \* wei held by every account and by the contract
    chainCall,         \* the last transaction: function, arguments, outcome
    accepted,          \* history: the claim transactions that succeeded, in order
    \* ---- Merkle accumulator (one IMT instance) ----
    tree,              \* the IMT instance: depth, arity, zeroes, nodes
    inserted,          \* history: the leaves the tree accepted, in order
    treeCall,          \* the last accumulator call: function, arguments, outcome
    \* ---- two further IMT instances, fed the same kind of insertions ----
    treeA,
    treeB,
    given,             \* history: the leaves handed to treeA and to treeB, in order
    \* ---- a script that keeps a Merkle proof while the tree grows ----
    held,              \* the proof kept, with the root, leaf and tree size it was made at
    \* ---- requests served by one process, all using the one tree instance ----
    tasks,             \* per request: what it does, how far it got, what it saw
    \* ---- the e2e script's step 2.5, run by one wallet ----
    e2eRun,            \* where buyPolicyOnChain is, what it read, what it sent
    \* ---- Circle's USDC on the Base fork, as the Pinion payment tests use it ----
    usdc,              \* balances, used authorizations, block time, last call
    \* ---- the authorizations the payment tests submitted too early ----
    attempts,          \* authorizations rejected while block time was not yet after validAfter
    \* ---- DeployBaseSepolia: the script's run and the contracts it created ----
    deployment,        \* the run's position and fields, the deployer nonces, the contracts created
    \* ---- DeployBaseSepolia.sh: one invocation of the shell script ----
    shell,             \* its arguments left to parse, its flags, where main is, its exit code
    \* ---- e2e.ts main ----
    mainRun,           \* where main is, what the verifiers returned, what it sent, its exit code
    \* ---- FlightDelayInsurance.claim, with the code the payee runs on receipt ----
    callStack,         \* the claim calls whose transfer is being received, innermost last
    \* ---- history: wei that claim has transferred out ----
    paidOut            \* per policyId, the sum of the payouts of the claim calls not reverted

chainVars == <<policies, policyTreeRoots, ethBalance, chainCall, accepted>>
treeVars  == <<tree, inserted, treeCall>>
pairVars  == <<treeA, treeB, given>>
extVars   == <<held, tasks, e2eRun, usdc, attempts, deployment, shell, mainRun, callStack, paidOut>>
vars      == <<policies, policyTreeRoots, ethBalance, chainCall, accepted,
               tree, inserted, treeCall, treeA, treeB, given, held, tasks, e2eRun,
               usdc,
               attempts,
               deployment,
               shell,
               mainRun,
               callStack,
               paidOut>>

-----------------------------------------------------------------------------
(* Bounds of the model.                                                    *)

MaxPremium == 1   \* msg.value of buyPolicy ranges over 0..MaxPremium

-----------------------------------------------------------------------------
(* FlightDelayInsurance and its verifier.                                  *)

ZERO_ADDRESS == "0x0"
Accounts     == {"alice", "bob"}      \* the accounts that buy and claim
Contract     == "FlightDelayInsurance"
Funder       == "funder"              \* an account that only sends wei to the contract
PolicyIds    == {1, 2}
ZERO_BYTES32 == "0x00"
Roots        == {"rootA", "rootB"}    \* bytes32 Merkle roots
Nullifiers   == {"nhA", "nhB"}        \* bytes32 nullifier hashes

\* Every buyer can pay the highest premium for every policy.
InitialEth == MaxPremium * Cardinality(PolicyIds)

\* The contract owes 3x and receives 1x per policy: the funder holds the rest
\* and sends it in parts of one policy's shortfall.
FundPart == 2 * MaxPremium
MaxFund  == FundPart * Cardinality(PolicyIds)

\* A proof blob, described by what the prover made it attest: the public
\* outputs (root, nullifier hash) it was generated for, and whether it is a
\* well-formed proof at all.
SoundProof(root, nh) == [root |-> root, nh |-> nh, sound |-> TRUE]
Garbage == [root |-> ZERO_BYTES32, nh |-> ZERO_BYTES32, sound |-> FALSE]

\* The blobs a caller submits together with the public inputs <<root, nh>>:
\* the proof generated for them, a proof generated for another root, a proof
\* generated for another nullifier hash, and bytes that are no proof.
ProofsFor(publicInputs) ==
    {SoundProof(publicInputs[1], publicInputs[2]), Garbage}
        \cup {SoundProof(r, publicInputs[2]) : r \in Roots}
        \cup {SoundProof(publicInputs[1], n) : n \in Nullifiers}

\* The ordered public-input vectors a caller can pass to claim.
PublicInputVectors == { <<r, n>> : r \in Roots, n \in Nullifiers }

\* HonkVerifier.verify(proof, publicInputs): true iff the blob is a sound
\* proof for exactly the given ordered public inputs [root, nullifierHash].
HonkVerifier_verify(proof, publicInputs) ==
    /\ Len(publicInputs) = 2
    /\ proof.sound
    /\ publicInputs[1] = proof.root
    /\ publicInputs[2] = proof.nh

\* bytes32(publicInputs[i]): the same 256 bits read as bytes32.
Bytes32OfUint256(x) == x

\* FlightDelayInsuranceVerifier.verify: converts uint256[] to bytes32[]
\* element by element and delegates to HonkVerifier.verify.
Verifier_verify(proof, publicInputs) ==
    LET inputs == [i \in 1..Len(publicInputs) |-> Bytes32OfUint256(publicInputs[i])]
    IN  HonkVerifier_verify(proof, inputs)

\* The default value of a Policy slot in storage.
EmptyPolicy ==
    [holder |-> ZERO_ADDRESS, payoutAmount |-> 0,
     coverageStart |-> 0, coverageEnd |-> 0, claimed |-> FALSE]

\* BuyPolicyOutcome without its first require.
BuyPolicyOutcome_NoHolderCheck(sender, policyId, value) ==
    IF ~(value > 0) THEN "revert" ELSE "ok"

\* The outcome of a buyPolicy call: "revert" when a require fails (neither
\* require statement carries a message), "ok" otherwise.
BuyPolicyOutcome(sender, policyId, value) ==
    IF policies[policyId].holder # ZERO_ADDRESS THEN "revert"
    ELSE IF ~(value > 0) THEN "revert"
    ELSE "ok"

\* buyPolicy(policyTreeRoot, policyId, coverageStart, coverageEnd) payable.
\* The root is stored first; a failing require reverts the whole transaction,
\* that store and the value transfer included.
buyPolicy(sender, policyTreeRoot, policyId, coverageStart, coverageEnd, value) ==
    /\ ethBalance[sender] >= value
    /\ LET outcome == BuyPolicyOutcome(sender, policyId, value) IN
        /\ chainCall' = [fn |-> "buyPolicy", sender |-> sender, policyId |-> policyId,
                         value |-> value, result |-> outcome]
        /\ IF outcome = "ok"
           THEN /\ policyTreeRoots' = [policyTreeRoots EXCEPT ![policyId] = policyTreeRoot]
                /\ policies' = [policies EXCEPT ![policyId] =
                                   [holder |-> sender,
                                    payoutAmount |-> value * 3,
                                    coverageStart |-> coverageStart,
                                    coverageEnd |-> coverageEnd,
                                    claimed |-> FALSE]]
                /\ ethBalance' = [ethBalance EXCEPT ![sender] = @ - value,
                                                    ![Contract] = @ + value]
           ELSE UNCHANGED <<policyTreeRoots, policies, ethBalance>>
    /\ UNCHANGED <<accepted, treeVars, pairVars, held, tasks, usdc, attempts, deployment, shell, callStack, paidOut>>

\* ClaimOutcome without its first require.
ClaimOutcome_NoClaimedCheck(sender, policyId, proof, publicInputs) ==
    LET p == policies[policyId] IN
    IF p.holder # sender THEN "Not holder"
    ELSE IF ~Verifier_verify(proof, publicInputs) THEN "Invalid proof"
    ELSE IF ethBalance[Contract] < p.payoutAmount THEN "transfer failed"
    ELSE "ok"

\* ClaimOutcome without require(p.holder == msg.sender).
ClaimOutcome_NoHolderCheck(sender, policyId, proof, publicInputs) ==
    LET p == policies[policyId] IN
    IF p.claimed THEN "Already claimed"
    ELSE IF ~Verifier_verify(proof, publicInputs) THEN "Invalid proof"
    ELSE IF ethBalance[Contract] < p.payoutAmount THEN "transfer failed"
    ELSE "ok"

\* The requires of claim, in the order the code evaluates them, followed by
\* the transfer, which reverts when the contract holds less than the payout.
ClaimOutcome(sender, policyId, proof, publicInputs) ==
    LET p == policies[policyId] IN
    IF p.claimed THEN "Already claimed"
    ELSE IF p.holder # sender THEN "Not holder"
    ELSE IF ~Verifier_verify(proof, publicInputs) THEN "Invalid proof"
    ELSE IF ethBalance[Contract] < p.payoutAmount THEN "transfer failed"
    ELSE "ok"

\* claim(policyId, proof, publicInputs).
claim(sender, policyId, proof, publicInputs) ==
    /\ LET outcome == ClaimOutcome(sender, policyId, proof, publicInputs)
           p       == policies[policyId] IN
        /\ chainCall' = [fn |-> "claim", sender |-> sender, policyId |-> policyId,
                         value |-> 0, result |-> outcome]
        /\ IF outcome = "ok"
           THEN /\ policies' = [policies EXCEPT ![policyId].claimed = TRUE]
                /\ ethBalance' = [ethBalance EXCEPT ![Contract] = @ - p.payoutAmount,
                                                    ![sender] = @ + p.payoutAmount]
                /\ accepted' = Append(accepted,
                                   [policyId |-> policyId, publicInputs |-> publicInputs])
           ELSE UNCHANGED <<policies, ethBalance, accepted>>
    /\ UNCHANGED <<policyTreeRoots, treeVars, pairVars, held, tasks, e2eRun, usdc, attempts, deployment, shell, callStack, paidOut>>

\* receive() external payable {}: anyone may send wei to the contract.
receive(sender, value) ==
    /\ value > 0
    /\ ethBalance[sender] >= value
    /\ ethBalance' = [ethBalance EXCEPT ![sender] = @ - value, ![Contract] = @ + value]
    /\ chainCall' = [fn |-> "receive", sender |-> sender, policyId |-> 0,
                     value |-> value, result |-> "ok"]
    /\ UNCHANGED <<policies, policyTreeRoots, accepted, treeVars, pairVars, extVars>>

NoCall ==
    [fn |-> "none", sender |-> ZERO_ADDRESS, policyId |-> 0, value |-> 0,
     result |-> "ok"]

\* The contract right after its constructor ran.
InitChain ==
    /\ policies = [id \in PolicyIds |-> EmptyPolicy]
    /\ policyTreeRoots = [id \in PolicyIds |-> ZERO_BYTES32]
    /\ ethBalance = [a \in Accounts \cup {Contract, Funder} |->
                        IF a = Contract THEN 0
                        ELSE IF a = Funder THEN MaxFund ELSE InitialEth]
    /\ chainCall = NoCall
    /\ accepted = <<>>

BuyPolicyStep ==
    \E sender \in Accounts, root \in Roots, id \in PolicyIds, value \in 0..MaxPremium :
        buyPolicy(sender, root, id, 0, 1, value) /\ UNCHANGED <<e2eRun, mainRun, callStack, paidOut>>

ClaimStep ==
    \E sender \in Accounts, id \in PolicyIds, publicInputs \in PublicInputVectors :
        \E proof \in ProofsFor(publicInputs) :
            claim(sender, id, proof, publicInputs) /\ UNCHANGED mainRun

ReceiveStep ==
    \E parts \in 1..Cardinality(PolicyIds) : receive(Funder, parts * FundPart)

-----------------------------------------------------------------------------
(* Hash primitives and string conversion.                                  *)

\* A bigint field element n.
BigInt(n) == [v |-> n]

\* poseidon2([a, b]) of poseidon-lite, as a free constructor.
poseidon2(inputs) == [l |-> inputs[1], r |-> inputs[2]]

\* poseidon1([a]) and poseidon3([a, b, c]) of poseidon-lite.
poseidon1(inputs) == [h1 |-> inputs[1]]
poseidon3(inputs) == [a |-> inputs[1], b |-> inputs[2], c |-> inputs[3]]

\* x.toString(): the decimal string of a field element.
toString(x) == [str |-> x]

\* BigInt(s): the field element a decimal string denotes.
ParseBigInt(s) == s.str

\* Array.prototype.toString: the elements' strings joined by ",".  An array
\* of one element gives that element's string.
ArrayToString(arr) ==
    IF Len(arr) = 1 THEN toString(arr[1])
    ELSE [joined |-> [i \in 1..Len(arr) |-> toString(arr[i])]]

-----------------------------------------------------------------------------
(* constants.ts                                                            *)

MERKLE_TREE_DEPTH      == 6
MERKLE_PROOF_LENGTH    == MERKLE_TREE_DEPTH
MERKLE_TREE_ZERO_VALUE == 0
MERKLE_TREE_ARITY      == 2

-----------------------------------------------------------------------------
(* The IMT class of @zk-kit/imt that imt.ts wraps.  Levels and indices are *)
(* 0-based in the library and stored 1-based here: the library's           *)
(* _nodes[level][index] is t.nodes[level + 1][index + 1].                  *)

RECURSIVE IMT_zero(_, _, _)
\* The zero value of a level: zeroValue at level 0, then the hash of arity
\* copies of the level below.
IMT_zero(level, zeroValue, arity) ==
    IF level = 0 THEN zeroValue
    ELSE LET below == IMT_zero(level - 1, zeroValue, arity)
         IN  poseidon2([i \in 1..arity |-> below])

CeilDiv(n, d) == (n + d - 1) \div d

RECURSIVE IMT_buildLevels(_, _, _, _, _)
\* The constructor's loop over the levels when initial leaves are given:
\* every node of level + 1 is the hash of its arity children, a missing
\* child being the zero value of the level.
IMT_buildLevels(row, level, depth, arity, zeroes) ==
    IF level = depth THEN <<row>>
    ELSE LET parents ==
                 [index \in 1..CeilDiv(Len(row), arity) |->
                     poseidon2([i \in 1..arity |->
                         LET k == (index - 1) * arity + i
                         IN  IF k <= Len(row) THEN row[k] ELSE zeroes[level + 1]])]
         IN  <<row>> \o IMT_buildLevels(parents, level + 1, depth, arity, zeroes)

\* new IMT(hash, depth, zeroValue, arity, leaves).
IMT_new(depth, zeroValue, arity, leaves) ==
    LET zeroes == [level \in 1..depth |-> IMT_zero(level - 1, zeroValue, arity)]
    IN  [depth  |-> depth,
         arity  |-> arity,
         zeroes |-> zeroes,
         nodes  |-> IF Len(leaves) > 0
                    THEN IMT_buildLevels(leaves, 0, depth, arity, zeroes)
                    ELSE [level \in 1..(depth + 1) |->
                             IF level = depth + 1
                             THEN <<IMT_zero(depth, zeroValue, arity)>>
                             ELSE <<>>]]

\* The constructor throws when more leaves are given than the tree holds.
IMT_new_throws(depth, arity, leaves) == Len(leaves) > arity ^ depth

\* row[index] = node for a 0-based index that is in the row or right after it.
SetAt(row, index, node) ==
    IF index < Len(row) THEN [row EXCEPT ![index + 1] = node]
    ELSE Append(row, node)

RECURSIVE IMT_insertLevels(_, _, _, _, _)
\* The loop of IMT.insert: store the node, hash it with its siblings (zero
\* values where the level has no node yet), go up.
IMT_insertLevels(t, nds, level, index, node) ==
    IF level = t.depth THEN [nds EXCEPT ![t.depth + 1] = SetAt(@, 0, node)]
    ELSE LET position        == index % t.arity
             levelStartIndex == index - position
             row             == SetAt(nds[level + 1], index, node)
             children        ==
                 [i \in 1..t.arity |->
                     IF levelStartIndex + i - 1 < Len(row)
                     THEN row[levelStartIndex + i]
                     ELSE t.zeroes[level + 1]]
         IN  IMT_insertLevels(t, [nds EXCEPT ![level + 1] = row], level + 1,
                              index \div t.arity, poseidon2(children))

\* IMT.insert throws "The tree is full" when every leaf slot is taken.
IMT_insert_throws(t) == Len(t.nodes[1]) >= t.arity ^ t.depth

\* IMT.insert(leaf): the tree after the insertion.
IMT_insert(t, leaf) ==
    [t EXCEPT !.nodes = IMT_insertLevels(t, t.nodes, 0, Len(t.nodes[1]), leaf)]

\* The value IMT.insert returns: the index of the new leaf.
IMT_insert_returns(t) == Len(t.nodes[1])

\* IMT.indexOf(leaf): the first index holding the leaf, -1 when there is none.
IMT_indexOf(t, leaf) ==
    LET hits == { i \in 1..Len(t.nodes[1]) : t.nodes[1][i] = leaf }
    IN  IF hits = {} THEN -1
        ELSE (CHOOSE i \in hits : \A j \in hits : i <= j) - 1

\* IMT.createProof throws "The leaf does not exist in this tree".
IMT_createProof_throws(t, index) == index < 0 \/ index >= Len(t.nodes[1])

\* IMT.createProof(index): per level the position of the path node among
\* its siblings and the other arity - 1 nodes of its group.  Reading a leaf
\* slot that does not exist gives undefined, as a JavaScript array does.
IMT_createProof(t, index) ==
    LET at(level)  == index \div (t.arity ^ level)
        sibs(level) ==
            LET idx      == at(level)
                position == idx % t.arity
                start    == idx - position
            IN  [k \in 1..(t.arity - 1) |->
                    LET i == start + (IF k - 1 < position THEN k - 1 ELSE k)
                    IN  IF i < Len(t.nodes[level + 1])
                        THEN t.nodes[level + 1][i + 1]
                        ELSE t.zeroes[level + 1]]
    IN  [root        |-> t.nodes[t.depth + 1][1],
         leaf        |-> IF index >= 0 /\ index < Len(t.nodes[1])
                         THEN t.nodes[1][index + 1]
                         ELSE [undefined |-> TRUE],
         pathIndices |-> [level \in 1..t.depth |-> at(level - 1) % t.arity],
         siblings    |-> [level \in 1..t.depth |-> sibs(level - 1)],
         leafIndex   |-> index]

\* children.splice(position, 0, node)
Splice(children, position, node) ==
    LET at == IF position > Len(children) THEN Len(children) ELSE position
    IN  SubSeq(children, 1, at) \o <<node>> \o SubSeq(children, at + 1, Len(children))

RECURSIVE IMT_hashUp(_, _, _)
IMT_hashUp(node, proof, i) ==
    IF i > Len(proof.siblings) THEN node
    ELSE IMT_hashUp(poseidon2(Splice(proof.siblings[i], proof.pathIndices[i], node)),
                    proof, i + 1)

\* IMT.verifyProof(proof): the proof's own leaf hashed up through the
\* proof's siblings equals the proof's own root.
IMT_verifyProof(proof) == proof.root = IMT_hashUp(proof.leaf, proof, 1)

-----------------------------------------------------------------------------
(* imt.ts: the accumulator the scripts use.                                *)

\* createMerkleTree with a depth one above the circuit's.
createMerkleTree_DeeperTree(leaves) ==
    IMT_new(MERKLE_TREE_DEPTH + 1, BigInt(MERKLE_TREE_ZERO_VALUE), MERKLE_TREE_ARITY, leaves)

\* createMerkleTree that drops the initial leaves.
createMerkleTree_NoLeaves(leaves) ==
    IMT_new(MERKLE_TREE_DEPTH, BigInt(MERKLE_TREE_ZERO_VALUE), MERKLE_TREE_ARITY, <<>>)

\* createMerkleTree whose empty slots hold 1 instead of the zero value.
createMerkleTree_ZeroOne(leaves) ==
    IMT_new(MERKLE_TREE_DEPTH, BigInt(MERKLE_TREE_ZERO_VALUE + 1), MERKLE_TREE_ARITY, leaves)

createMerkleTree(leaves) ==
    IMT_new(MERKLE_TREE_DEPTH, BigInt(MERKLE_TREE_ZERO_VALUE), MERKLE_TREE_ARITY, leaves)

getMerkleRoot(t) == toString(t.nodes[t.depth + 1][1])

getLeafIndex(t, commitment) == IMT_indexOf(t, commitment)

getTreeSize(t) == Len(t.nodes[1])

getTreeLeaves(t) == t.nodes[1]

\* createMerkleProof that reports every path index as 0.
createMerkleProof_LeftPath(t, leafIndex) ==
    LET proof == IMT_createProof(t, leafIndex)
    IN  [siblings    |-> [i \in 1..Len(proof.siblings) |-> ArrayToString(proof.siblings[i])],
         pathIndices |-> [i \in 1..Len(proof.pathIndices) |-> 0],
         leafIndex   |-> leafIndex]

\* createMerkleProof that reports the zero leaf as the topmost sibling.
createMerkleProof_TopZero(t, leafIndex) ==
    LET proof == IMT_createProof(t, leafIndex)
    IN  [siblings    |-> [i \in 1..Len(proof.siblings) |->
                             IF i = Len(proof.siblings) THEN toString(t.zeroes[1])
                             ELSE ArrayToString(proof.siblings[i])],
         pathIndices |-> proof.pathIndices,
         leafIndex   |-> leafIndex]

\* createMerkleProof(tree, leafIndex): the library's proof with every
\* sibling group turned into a string; root and leaf are dropped.
createMerkleProof(t, leafIndex) ==
    LET proof == IMT_createProof(t, leafIndex)
    IN  [siblings    |-> [i \in 1..Len(proof.siblings) |-> ArrayToString(proof.siblings[i])],
         pathIndices |-> proof.pathIndices,
         leafIndex   |-> leafIndex]

\* verifyMerkleProof(tree, leaf, leafIndex): builds the proof of leafIndex
\* from the tree and verifies that proof; the leaf argument is not read.
verifyMerkleProof(t, leaf, leafIndex) ==
    LET proof == IMT_createProof(t, leafIndex)
    IN  IMT_verifyProof(proof)

RECURSIVE HashPath(_, _, _)
HashPath(node, proof, i) ==
    IF i > Len(proof.siblings) THEN node
    ELSE LET sibling == ParseBigInt(proof.siblings[i])
         IN  HashPath(IF proof.pathIndices[i] = 0
                      THEN poseidon2(<<node, sibling>>)
                      ELSE poseidon2(<<sibling, node>>),
                      proof, i + 1)

\* verifyInclusion(root, leaf, proof): the leaf hashed up through the proof's
\* siblings, the path index of a level saying whether the running node is the
\* left (0) or the right (1) child, compared with the claimed root.
verifyInclusion(root, leaf, proof) == toString(HashPath(leaf, proof, 1)) = root

-----------------------------------------------------------------------------
(* zk-prover.ts, generateProof: the Merkle proof is copied into arrays of  *)
(* the length the circuit expects.                                         *)

PROVER_MERKLE_TREE_DEPTH == 6

\* new Array(6).fill(fill), then the first min(length, 6) elements copied.
PadTo(arr, fill) ==
    [i \in 1..PROVER_MERKLE_TREE_DEPTH |-> IF i <= Len(arr) THEN arr[i] ELSE fill]

paddedProofIndices(merkleProof) == PadTo(merkleProof.pathIndices, 0)

paddedProofSiblings(merkleProof) == PadTo(merkleProof.siblings, toString(BigInt(0)))

-----------------------------------------------------------------------------
(* Bounds of the accumulator model.                                        *)

MaxLeafValue  == 2   \* commitments are the field elements 0..MaxLeafValue
MaxLeaves     == 2   \* insertions explored from the empty tree, and free
                     \* slots left in the nearly full initial tree
MaxBatch      == 2   \* longest array handed to insertLeaves
PairMaxLeaves == 2   \* leaves per tree when two trees are compared

Commitments == { BigInt(n) : n \in 0..MaxLeafValue }

Capacity == MERKLE_TREE_ARITY ^ MERKLE_TREE_DEPTH

\* An array of n commitments, as a caller hands it to createMerkleTree.
Filler(n) == [i \in 1..n |-> BigInt(i % (MaxLeafValue + 1))]

\* The arrays createMerkleTree is called with: none, and one that leaves
\* MaxLeaves free slots.
InitialLeafArrays == { Filler(0), Filler(Capacity - MaxLeaves) }

\* The model explores insertions into small trees and into nearly full ones.
InsertExplored(t, n) ==
    \/ getTreeSize(t) + n <= MaxLeaves
    \/ getTreeSize(t) >= Capacity - MaxLeaves

\* Leaf indices callers ask proofs for: around the small trees, around the
\* capacity, and one negative.
ProofIndices == (-1..MaxLeaves) \cup ((Capacity - MaxLeaves - 1)..Capacity)

\* The arrays insertLeaves is called with: up to MaxBatch consecutive
\* commitments, starting anywhere.
Batches ==
    { [i \in 1..n |-> BigInt((c + i) % (MaxLeafValue + 1))] :
          n \in 0..MaxBatch, c \in 0..MaxLeafValue }

\* The values a call returns, tagged with their JavaScript type.
Undefined  == [undefined |-> TRUE]
Number(n)  == [number |-> n]
Boolean(b) == [boolean |-> b]

TreeCall(fn, leaf, index, outcome, ret) ==
    [fn |-> fn, leaf |-> leaf, index |-> index, outcome |-> outcome, ret |-> ret,
     sizeBefore |-> getTreeSize(tree)]

-----------------------------------------------------------------------------
(* Calls on the accumulator.                                               *)

\* insertLeaf that catches the library's error.
insertLeafOutcome_Swallowed(t) == "ok"

\* What a call of insertLeaf ends with: the library's error propagates.
insertLeafOutcome(t) == IF IMT_insert_throws(t) THEN "The tree is full" ELSE "ok"

\* insertLeaf that overwrites the first leaf of a non-empty tree.
insertLeaf_Overwrite(commitment) ==
    /\ InsertExplored(tree, 1)
    /\ LET outcome == insertLeafOutcome(tree) IN
        /\ treeCall' = TreeCall("insertLeaf", commitment, -1, outcome, Undefined)
        /\ IF outcome = "ok"
           THEN /\ tree' = IF getTreeSize(tree) = 0 THEN IMT_insert(tree, commitment)
                            ELSE IMT_insert(
                                     createMerkleTree([getTreeLeaves(tree) EXCEPT ![1] = commitment]),
                                     commitment)
                /\ inserted' = Append(inserted, commitment)
           ELSE UNCHANGED <<tree, inserted>>
    /\ UNCHANGED <<chainVars, pairVars, extVars>>

\* insertLeaf(tree, commitment): void.  The index IMT.insert returns is
\* dropped.
insertLeaf(commitment) ==
    /\ InsertExplored(tree, 1)
    /\ LET outcome == insertLeafOutcome(tree) IN
        /\ treeCall' = TreeCall("insertLeaf", commitment, -1, outcome, Undefined)
        /\ IF outcome = "ok"
           THEN /\ tree' = IMT_insert(tree, commitment)
                /\ inserted' = Append(inserted, commitment)
           ELSE UNCHANGED <<tree, inserted>>
    /\ UNCHANGED <<chainVars, pairVars, extVars>>

RECURSIVE insertEach(_, _, _)
\* commitments.forEach(c => tree.insert(c)): the first throw ends the loop,
\* the insertions made before it stay.
insertEach(t, commitments, i) ==
    IF i > Len(commitments) THEN [tree |-> t, outcome |-> "ok", done |-> i - 1]
    ELSE IF IMT_insert_throws(t)
         THEN [tree |-> t, outcome |-> "The tree is full", done |-> i - 1]
         ELSE insertEach(IMT_insert(t, commitments[i]), commitments, i + 1)

\* insertLeaves(tree, commitments): void.
insertLeaves(commitments) ==
    /\ InsertExplored(tree, Len(commitments))
    /\ LET r == insertEach(tree, commitments, 1) IN
        /\ treeCall' = TreeCall("insertLeaves", commitments, -1, r.outcome, Undefined)
        /\ tree' = r.tree
        /\ inserted' = inserted \o SubSeq(commitments, 1, r.done)
    /\ UNCHANGED <<chainVars, pairVars, extVars>>

\* getMerkleRoot(tree): a read.
readMerkleRoot ==
    /\ treeCall' = TreeCall("getMerkleRoot", Undefined, -1, "ok", getMerkleRoot(tree))
    /\ UNCHANGED <<tree, inserted, chainVars, pairVars, extVars>>

\* getTreeSize(tree): a read.
readTreeSize ==
    /\ treeCall' = TreeCall("getTreeSize", Undefined, -1, "ok", Number(getTreeSize(tree)))
    /\ UNCHANGED <<tree, inserted, chainVars, pairVars, extVars>>

\* getLeafIndex(tree, commitment): a read.
readLeafIndex(commitment) ==
    /\ treeCall' = TreeCall("getLeafIndex", commitment, -1, "ok",
                            Number(getLeafIndex(tree, commitment)))
    /\ UNCHANGED <<tree, inserted, chainVars, pairVars, extVars>>

\* proofOutcome that lets the index right after the last leaf through.
proofOutcome_PastEnd(t, leafIndex) ==
    IF leafIndex < 0 \/ leafIndex > getTreeSize(t)
    THEN "The leaf does not exist in this tree" ELSE "ok"

\* What a call with a leaf index ends with: the library's range error
\* propagates.
proofOutcome(t, leafIndex) ==
    IF IMT_createProof_throws(t, leafIndex)
    THEN "The leaf does not exist in this tree" ELSE "ok"

\* createMerkleProof(tree, leafIndex) called by a script.
callCreateMerkleProof(leafIndex) ==
    /\ LET outcome == proofOutcome(tree, leafIndex) IN
        treeCall' = TreeCall("createMerkleProof", Undefined, leafIndex, outcome,
                             IF outcome = "ok" THEN createMerkleProof(tree, leafIndex)
                             ELSE Undefined)
    /\ UNCHANGED <<tree, inserted, chainVars, pairVars, extVars>>

\* verifyMerkleProof(tree, leaf, leafIndex) called by a script.
callVerifyMerkleProof(leaf, leafIndex) ==
    /\ LET outcome == proofOutcome(tree, leafIndex) IN
        treeCall' = TreeCall("verifyMerkleProof", leaf, leafIndex, outcome,
                             IF outcome = "ok"
                             THEN Boolean(verifyMerkleProof(tree, leaf, leafIndex))
                             ELSE Undefined)
    /\ UNCHANGED <<tree, inserted, chainVars, pairVars, extVars>>

\* The tree right after createMerkleTree(leaves).
InitTreeWith(leaves) ==
    /\ tree = createMerkleTree(leaves)
    /\ inserted = leaves
    /\ treeCall = [fn |-> "createMerkleTree", leaf |-> leaves, index |-> -1,
                   outcome |-> "ok", ret |-> Undefined, sizeBefore |-> 0]

InitPairWith(leaves) ==
    /\ treeA = createMerkleTree(leaves)
    /\ treeB = createMerkleTree(<<>>)
    /\ given = [A |-> leaves, B |-> <<>>]

InitPairIdle == InitPairWith(<<>>)

\* insertLeaf on treeA or on treeB.
pairInsertLeaf(which, commitment) ==
    LET t == IF which = "A" THEN treeA ELSE treeB IN
    /\ getTreeSize(t) < PairMaxLeaves
    /\ insertLeafOutcome(t) = "ok"
    /\ IF which = "A"
       THEN treeA' = IMT_insert(treeA, commitment) /\ treeB' = treeB
       ELSE treeB' = IMT_insert(treeB, commitment) /\ treeA' = treeA
    /\ given' = [given EXCEPT ![which] = Append(@, commitment)]
    /\ treeCall' = [fn |-> "insertLeaf", which |-> which, leaf |-> commitment,
                    outcome |-> "ok", ret |-> Undefined]
    /\ UNCHANGED <<chainVars, tree, inserted, extVars>>

\* getMerkleRoot on treeA or on treeB.
pairReadMerkleRoot(which) ==
    LET t == IF which = "A" THEN treeA ELSE treeB IN
    /\ treeCall' = [fn |-> "getMerkleRoot", which |-> which, leaf |-> Undefined,
                    outcome |-> "ok", ret |-> getMerkleRoot(t)]
    /\ UNCHANGED <<chainVars, tree, inserted, pairVars, extVars>>

-----------------------------------------------------------------------------
(* imt.ts: commitment and nullifier derivation.                            *)

generatePolicyCommitment(policyId, passengerHash, salt) ==
    poseidon3(<<policyId, passengerHash, salt>>)

generatePassengerHash(ticketNumberHash, flightNumberHash, passengerNameHash) ==
    poseidon3(<<ticketNumberHash, flightNumberHash, passengerNameHash>>)

\* generateNullifier with its two arguments hashed in the other order.
generateNullifier_SaltFirst(policyCommitment, salt) ==
    poseidon2(<<salt, policyCommitment>>)

\* generateNullifier that leaves the salt out.
generateNullifier_NoSalt(policyCommitment, salt) ==
    poseidon2(<<policyCommitment, policyCommitment>>)

generateNullifier(policyCommitment, salt) ==
    poseidon2(<<policyCommitment, salt>>)

generateNullifierHash(nullifier) == poseidon1(<<nullifier>>)

-----------------------------------------------------------------------------
(* zk-prover.ts: generateProof.                                            *)

\* The circuit executed by noir.execute: it recomputes the commitment from
\* policy_id, passenger_hash and salt, hashes it up through the Merkle path
\* it is given and compares with policy_tree_root; its other constraints
\* (coverage window, delay threshold) hold or not as the flight data decide.
circuitAccepts(inputs, flightDataOk) ==
    /\ flightDataOk
    /\ verifyInclusion(inputs.public_inputs.policy_tree_root,
                       poseidon3(<<inputs.public_inputs.policy_id,
                                   ParseBigInt(inputs.private_inputs.passenger_hash),
                                   ParseBigInt(inputs.private_inputs.salt)>>),
                       [siblings    |-> inputs.private_inputs.merkle_proof_siblings,
                        pathIndices |-> inputs.private_inputs.merkle_proof_indices])

\* `Failed to generate proof: ${error}` for an Error with the given message.
FailedToGenerateProof(message) ==
    [thrown |-> TRUE, prefix |-> "Failed to generate proof: ", cause |-> message]

\* generateProof that goes on when indexOf returns -1.
commitmentNotFound_Ignored(leafIndex) == FALSE

\* if (leafIndex === -1)
commitmentNotFound(leafIndex) == leafIndex = -1

\* generateProof(privateInputs, publicInputs, tree).  env says what the
\* external parts do: whether Barretenberg.new() resolves, whether the
\* flight data satisfy the circuit, whether backend.generateProof resolves.
\* The result names what was thrown or returned, the inputs handed to the
\* circuit, and how often api.destroy() was called.
generateProof(privateInputs, publicInputs, t, env) ==
    LET policyCommitment ==
            generatePolicyCommitment(publicInputs.policyId,
                                     privateInputs.passengerHash, privateInputs.salt)
        leafIndex     == IMT_indexOf(t, policyCommitment)
        merkleProof   == createMerkleProof(t, leafIndex)
        nullifier     == generateNullifier(policyCommitment, privateInputs.salt)
        nullifierHash == generateNullifierHash(nullifier)
        inputs ==
            [private_inputs |->
                 [passenger_name_hash   |-> toString(privateInputs.passengerNameHash),
                  ticket_number_hash    |-> toString(privateInputs.ticketNumberHash),
                  flight_number_hash    |-> toString(privateInputs.flightNumberHash),
                  salt                  |-> toString(privateInputs.salt),
                  passenger_hash        |-> toString(privateInputs.passengerHash),
                  merkle_proof_indices  |-> paddedProofIndices(merkleProof),
                  merkle_proof_siblings |-> paddedProofSiblings(merkleProof)],
             public_inputs |->
                 [policy_tree_root |-> publicInputs.policyTreeRoot,
                  policy_id        |-> publicInputs.policyId]]
        none == [undefined |-> TRUE]
    IN  IF ~env.apiCreated
        THEN [error |-> FailedToGenerateProof("Barretenberg.new failed"),
              result |-> none, fed |-> none, leafIndex |-> -1, destroyCalls |-> 0]
        ELSE IF commitmentNotFound(leafIndex)
        THEN [error |-> FailedToGenerateProof("Policy commitment not found in merkle tree"),
              result |-> none, fed |-> none, leafIndex |-> leafIndex, destroyCalls |-> 1]
        ELSE IF proofOutcome(t, leafIndex) # "ok"
        THEN [error |-> FailedToGenerateProof(proofOutcome(t, leafIndex)),
              result |-> none, fed |-> none, leafIndex |-> leafIndex, destroyCalls |-> 1]
        ELSE IF ~circuitAccepts(inputs, env.flightDataOk)
        THEN [error |-> FailedToGenerateProof("circuit execution failed"),
              result |-> none, fed |-> inputs, leafIndex |-> leafIndex, destroyCalls |-> 2]
        ELSE IF ~env.proved
        THEN [error |-> FailedToGenerateProof("backend.generateProof failed"),
              result |-> none, fed |-> inputs, leafIndex |-> leafIndex, destroyCalls |-> 2]
        ELSE [error |-> [thrown |-> FALSE],
              result |->
                  [proof |-> SoundProof(publicInputs.policyTreeRoot, toString(nullifierHash)),
                   publicInputs |-> publicInputs,
                   publicOutputs |->
                       [policyTreeRoot |-> publicInputs.policyTreeRoot,
                        nullifierHash  |-> toString(nullifierHash)]],
              fed |-> inputs, leafIndex |-> leafIndex, destroyCalls |-> 1]

\* await generateProof(privateInputs, publicInputs, tree) in a script.
callGenerateProof(privateInputs, publicInputs, env) ==
    /\ treeCall' = [fn |-> "generateProof",
                    privateInputs |-> privateInputs,
                    publicInputs  |-> publicInputs,
                    env |-> env,
                    run |-> generateProof(privateInputs, publicInputs, tree, env)]
    /\ UNCHANGED <<tree, inserted, chainVars, pairVars, extVars>>

-----------------------------------------------------------------------------
(* e2e.ts: the public inputs handed to the chain.                          *)

\* typeof value === "string"
IsString(value) == "str" \in DOMAIN value

\* toHex(bn, { size: 32 }): the number as 32 bytes.
toBytes32(value) ==
    [hex |-> IF IsString(value) THEN ParseBigInt(value) ELSE value, size |-> 32]

fieldToBytes32(value) ==
    toBytes32(IF IsString(value) THEN ParseBigInt(value) ELSE value)

proofToHex(proof) == [hex |-> proof]

\* buildPublicInputs of the second e2e script: the five public inputs
\* followed by the two public outputs.
buildPublicInputs_part_006(proofResult) ==
    <<toBytes32(ParseBigInt(proofResult.publicInputs.policyTreeRoot)),
      toBytes32(BigInt(proofResult.publicInputs.policyId)),
      toBytes32(BigInt(proofResult.publicInputs.coverageStart)),
      toBytes32(BigInt(proofResult.publicInputs.coverageEnd)),
      toBytes32(BigInt(proofResult.publicInputs.delayThreshold)),
      toBytes32(ParseBigInt(proofResult.publicOutputs.policyTreeRoot)),
      toBytes32(ParseBigInt(proofResult.publicOutputs.nullifierHash))>>

buildPublicInputs(proofResult) ==
    <<fieldToBytes32(proofResult.publicOutputs.policyTreeRoot),
      fieldToBytes32(proofResult.publicOutputs.nullifierHash)>>

\* A script derives the nullifier and the nullifier hash of a commitment
\* and a salt; the derivation made before it is remembered next to it.
deriveNullifier(policyCommitment, salt) ==
    /\ treeCall' =
           [fn |-> "generateNullifier",
            policyCommitment |-> policyCommitment,
            salt |-> salt,
            nullifier |-> generateNullifier(policyCommitment, salt),
            nullifierHash |-> generateNullifierHash(generateNullifier(policyCommitment, salt)),
            before |-> IF treeCall.fn = "generateNullifier"
                       THEN [made |-> TRUE,
                             policyCommitment |-> treeCall.policyCommitment,
                             salt |-> treeCall.salt,
                             nullifier |-> treeCall.nullifier,
                             nullifierHash |-> treeCall.nullifierHash]
                       ELSE [made |-> FALSE]]
    /\ UNCHANGED <<tree, inserted, chainVars, pairVars, extVars>>

\* verifyZKProofOnChain(proofResult, publicClient): the arguments of the two
\* read-only verifier calls.
verifyZKProofOnChain ==
    /\ treeCall.fn = "generateProof"
    /\ ~treeCall.run.error.thrown
    /\ treeCall' = [fn |-> "verifyZKProofOnChain",
                    script |-> "e2e.ts",
                    proofResult |-> treeCall.run.result,
                    policyId |-> treeCall.publicInputs.policyId,
                    args |-> [proof |-> proofToHex(treeCall.run.result.proof),
                              publicInputs |-> buildPublicInputs(treeCall.run.result)]]
    /\ UNCHANGED <<tree, inserted, chainVars, pairVars, extVars>>

\* submitClaimOnChain(proofResult, policyId, ...): the arguments of claim.
submitClaimOnChain ==
    /\ treeCall.fn = "verifyZKProofOnChain"
    /\ treeCall.script = "e2e.ts"
    /\ treeCall' = [fn |-> "submitClaimOnChain",
                    script |-> "e2e.ts",
                    proofResult |-> treeCall.proofResult,
                    policyId |-> treeCall.policyId,
                    args |-> [proof |-> proofToHex(treeCall.proofResult.proof),
                              publicInputs |-> buildPublicInputs(treeCall.proofResult)]]
    /\ UNCHANGED <<tree, inserted, chainVars, pairVars, extVars>>

\* verifyZKProofOnChain of the second e2e script: the arguments of the two
\* read-only verifier calls.
verifyZKProofOnChain_part_006 ==
    /\ treeCall.fn = "generateProof"
    /\ ~treeCall.run.error.thrown
    /\ treeCall' = [fn |-> "verifyZKProofOnChain",
                    script |-> "part_006",
                    proofResult |-> treeCall.run.result,
                    policyId |-> treeCall.publicInputs.policyId,
                    args |-> [proof |-> proofToHex(treeCall.run.result.proof),
                              publicInputs |-> buildPublicInputs_part_006(treeCall.run.result)]]
    /\ UNCHANGED <<tree, inserted, chainVars, pairVars, extVars>>

\* submitClaimOnChain of the second e2e script: the arguments of submitClaim.
submitClaimOnChain_part_006 ==
    /\ treeCall.fn = "verifyZKProofOnChain"
    /\ treeCall.script = "part_006"
    /\ treeCall' = [fn |-> "submitClaimOnChain",
                    script |-> "part_006",
                    proofResult |-> treeCall.proofResult,
                    policyId |-> treeCall.policyId,
                    args |-> [proof |-> proofToHex(treeCall.proofResult.proof),
                              publicInputs |-> buildPublicInputs_part_006(treeCall.proofResult),
                              nullifierHash |->
                                  toBytes32(ParseBigInt(
                                      treeCall.proofResult.publicOutputs.nullifierHash))]]
    /\ UNCHANGED <<tree, inserted, chainVars, pairVars, extVars>>

\* No proof is kept.
NoProof == [kept |-> FALSE]

\* const proof = createMerkleProof(tree, leafIndex), kept by the script
\* together with the leaf it is for and the root read at that moment.
keepMerkleProof(leafIndex) ==
    /\ proofOutcome(tree, leafIndex) = "ok"
    /\ held' = [kept  |-> TRUE,
                proof |-> createMerkleProof(tree, leafIndex),
                leaf  |-> getTreeLeaves(tree)[leafIndex + 1],
                root  |-> getMerkleRoot(tree),
                size  |-> getTreeSize(tree)]
    /\ treeCall' = TreeCall("createMerkleProof", Undefined, leafIndex, "ok",
                            createMerkleProof(tree, leafIndex))
    /\ UNCHANGED <<tree, inserted, chainVars, pairVars, tasks, e2eRun, usdc, attempts, deployment, shell, mainRun, callStack, paidOut>>

-----------------------------------------------------------------------------
(* Requests that use the same tree instance.  A request handler is a        *)
(* JavaScript task: it runs until it returns or awaits.  The steps of       *)
(* IMT.insert are modelled one level at a time, so that an interleaving     *)
(* with another request, were it possible, would show.                      *)

Tasks == {"insert1", "insert2", "read1", "read2"}

IsInsertTask(id) == id \in {"insert1", "insert2"}

IdleTask == [pc |-> "idle"]

\* insertLeaf with an await between the levels of the insertion.
insertLeafYields_BetweenLevels == TRUE

\* Whether insertLeaf gives control back to the event loop before it
\* returns: it is a synchronous function and awaits nothing.
insertLeafYields == FALSE

\* A task may run when no other task is in the middle of a call, or when the
\* running call has yielded.
MayRun(id) ==
    insertLeafYields \/ \A other \in Tasks \ {id} : tasks[other].pc # "running"

\* insertLeaf(tree, commitment) begins: IMT.insert checks the capacity and
\* reads the index of the next free leaf slot.
beginInsertLeaf(id, commitment) ==
    /\ IsInsertTask(id)
    /\ tasks[id].pc = "idle"
    /\ MayRun(id)
    /\ tasks' = [tasks EXCEPT ![id] =
                     IF IMT_insert_throws(tree)
                     THEN [pc |-> "done", outcome |-> "The tree is full",
                           leaf |-> commitment, assigned |-> -1]
                     ELSE [pc |-> "running", outcome |-> "ok", leaf |-> commitment,
                           assigned |-> Len(tree.nodes[1]),
                           level |-> 0, index |-> Len(tree.nodes[1]), node |-> commitment]]
    /\ UNCHANGED <<tree, inserted, treeCall, chainVars, pairVars, held, e2eRun, usdc, attempts, deployment, shell, mainRun, callStack, paidOut>>

\* One turn of the loop of IMT.insert: the node is stored at its level and
\* hashed with its siblings; after the last level the root is replaced and
\* insertLeaf returns.
continueInsertLeaf(id) ==
    /\ IsInsertTask(id)
    /\ tasks[id].pc = "running"
    /\ MayRun(id)
    /\ LET task            == tasks[id]
           position        == task.index % tree.arity
           levelStartIndex == task.index - position
           row             == SetAt(tree.nodes[task.level + 1], task.index, task.node)
           children        ==
               [i \in 1..tree.arity |->
                   IF levelStartIndex + i - 1 < Len(row)
                   THEN row[levelStartIndex + i]
                   ELSE tree.zeroes[task.level + 1]]
           parent          == poseidon2(children)
           last            == task.level + 1 = tree.depth
       IN  /\ tree' = [tree EXCEPT
                           !.nodes[task.level + 1] = row,
                           !.nodes[tree.depth + 1] = IF last THEN <<parent>> ELSE @]
           /\ tasks' = [tasks EXCEPT ![id] =
                            IF last
                            THEN [pc |-> "done", outcome |-> "ok", leaf |-> task.leaf,
                                  assigned |-> task.assigned]
                            ELSE [task EXCEPT !.level = @ + 1,
                                              !.index = @ \div tree.arity,
                                              !.node = parent]]
           /\ inserted' = IF last THEN Append(inserted, task.leaf) ELSE inserted
    /\ UNCHANGED <<treeCall, chainVars, pairVars, held, e2eRun, usdc, attempts, deployment, shell, mainRun, callStack, paidOut>>

\* getMerkleRoot(tree) in a request: the root is read together with the
\* leaves the tree holds at that moment.
taskGetMerkleRoot(id) ==
    /\ ~IsInsertTask(id)
    /\ tasks[id].pc = "idle"
    /\ MayRun(id)
    /\ tasks' = [tasks EXCEPT ![id] =
                     [pc |-> "done", outcome |-> "ok",
                      root |-> getMerkleRoot(tree), leaves |-> getTreeLeaves(tree)]]
    /\ UNCHANGED <<tree, inserted, treeCall, chainVars, pairVars, held, e2eRun, usdc, attempts, deployment, shell, mainRun, callStack, paidOut>>

\* ---- e2e.ts, step 2.5: buyPolicyOnChain ------------------------------------
\* The script reads policies(policyId) (an await), then either returns, throws
\* or sends buyPolicy (a second await); other transactions may be mined
\* between the read and the write.

E2E_MaxRuns == 2          \* how many times the step is run
E2EWallet   == "alice"    \* account.address, from USER_PRIVATE_KEY
E2E_PREMIUM == MaxPremium \* premium, 0.001 ETH, in units of the model

NoRun ==
    [pc |-> "idle", policyId |-> 0, policyTreeRoot |-> ZERO_BYTES32,
     existingHolder |-> ZERO_ADDRESS, sent |-> 0, outcome |-> "none",
     runs |-> 0, returned |-> {}]

\* const existingRaw = await publicClient.readContract({functionName: "policies"})
buyPolicyOnChain_readContract(policyId, policyTreeRoot) ==
    /\ e2eRun.pc = "idle"
    /\ e2eRun.runs < E2E_MaxRuns
    /\ e2eRun' = [e2eRun EXCEPT !.pc = "read",
                                !.policyId = policyId,
                                !.policyTreeRoot = policyTreeRoot,
                                !.existingHolder = policies[policyId].holder,
                                !.sent = 0,
                                !.outcome = "none"]
    /\ UNCHANGED <<chainVars, treeVars, pairVars, held, tasks, usdc, attempts, deployment, shell, callStack, paidOut>>

\* buyPolicyOnChain without the "already owned by this wallet" return.
buyPolicyOnChain_NoSkip ==
    /\ e2eRun.pc = "read"
    /\ LET policyId == e2eRun.policyId
           ended(outcome, sent) ==
               [e2eRun EXCEPT !.pc = "idle", !.sent = sent, !.outcome = outcome,
                              !.runs = @ + 1,
                              !.returned = IF outcome \in {"skipped", "purchased"}
                                           THEN @ \cup {policyId} ELSE @]
       IN  IF e2eRun.existingHolder # ZERO_ADDRESS /\ e2eRun.existingHolder # E2EWallet
           THEN /\ e2eRun' = ended("thrown", 0)
                /\ UNCHANGED <<chainVars, treeVars, pairVars, held, tasks, usdc, attempts, deployment, shell, callStack, paidOut>>
           ELSE IF ethBalance[E2EWallet] >= E2E_PREMIUM
           THEN /\ buyPolicy(E2EWallet, e2eRun.policyTreeRoot, policyId, 0, 1, E2E_PREMIUM)
                /\ e2eRun' = ended(IF BuyPolicyOutcome(E2EWallet, policyId, E2E_PREMIUM) = "ok"
                                   THEN "purchased" ELSE "reverted", 1)
           ELSE /\ e2eRun' = ended("rejected", 1)
                /\ UNCHANGED <<chainVars, treeVars, pairVars, held, tasks, usdc, attempts, deployment, shell, callStack, paidOut>>

\* The rest of buyPolicyOnChain: the two checks of existingHolder, then
\* walletClient.writeContract and the receipt.  "sent" counts the
\* writeContract calls; "returned" collects the policyIds for which the step
\* returned normally.
buyPolicyOnChain ==
    /\ e2eRun.pc = "read"
    /\ LET policyId == e2eRun.policyId
           ended(outcome, sent) ==
               [e2eRun EXCEPT !.pc = "idle", !.sent = sent, !.outcome = outcome,
                              !.runs = @ + 1,
                              !.returned = IF outcome \in {"skipped", "purchased"}
                                           THEN @ \cup {policyId} ELSE @]
       IN  IF e2eRun.existingHolder # ZERO_ADDRESS /\ e2eRun.existingHolder = E2EWallet
           THEN /\ e2eRun' = ended("skipped", 0)
                /\ UNCHANGED <<chainVars, treeVars, pairVars, held, tasks, usdc, attempts, deployment, shell, callStack, paidOut>>
           ELSE IF e2eRun.existingHolder # ZERO_ADDRESS
           THEN /\ e2eRun' = ended("thrown", 0)
                /\ UNCHANGED <<chainVars, treeVars, pairVars, held, tasks, usdc, attempts, deployment, shell, callStack, paidOut>>
           ELSE IF ethBalance[E2EWallet] >= E2E_PREMIUM
           THEN /\ buyPolicy(E2EWallet, e2eRun.policyTreeRoot, policyId, 0, 1, E2E_PREMIUM)
                /\ e2eRun' = ended(IF BuyPolicyOutcome(E2EWallet, policyId, E2E_PREMIUM) = "ok"
                                   THEN "purchased" ELSE "reverted", 1)
           ELSE \* the wallet cannot pay: the node rejects the transaction
                /\ e2eRun' = ended("rejected", 1)
                /\ UNCHANGED <<chainVars, treeVars, pairVars, held, tasks, usdc, attempts, deployment, shell, callStack, paidOut>>

\* ---- USDC (Circle FiatToken V2) and the Pinion payment tests ---------------
\* The tests sign an EIP-3009 authorization with the user's key and have the
\* Pinion facilitator call USDC.transferWithAuthorization on the Base fork.

MaxNonce == 2    \* authorization nonces range over 1..MaxNonce
MaxTime  == 3    \* block.timestamp ranges over 1..MaxTime

PINION_PAYTO          == "Pinion_PayTo"
PINION_SKILL_COST     == 10000
PINION_UNLIMITED_COST == 100000000
UserUsdc              == 200000000   \* deal(address(USDC), user, 200_000_000, true)

Payers     == {"PinionUser", PINION_PAYTO}
UsdcValues == {PINION_SKILL_COST, PINION_UNLIMITED_COST}
Nonces     == 1..MaxNonce
\* (validAfter, validBefore): one window open from the first block and never
\* closing within the model's time, one that opens and closes within it.
Windows    == {<<0, MaxTime + 1>>, <<1, MaxTime>>}

NoUsdcCall ==
    [value |-> 0, fn |-> "none", result |-> "ok", from |-> PINION_PAYTO,
     validAfter |-> 0, validBefore |-> 0, nonce |-> 0, signer |-> PINION_PAYTO]

InitUsdc ==
    [balanceOf |-> [a \in Payers |-> IF a = "PinionUser" THEN UserUsdc ELSE 0],
     authorizationState |-> {},
     timestamp |-> 1,
     settled |-> {},
     paid |-> {},
     call |-> NoUsdcCall]

\* keccak256 of the EIP-712 encoding, as a free constructor: the tuple of the
\* fields that abi.encode packs, in its order.
_buildEIP3009Digest(from, to, value, validAfter, validBefore, nonce) ==
    <<from, to, value, validAfter, validBefore, nonce>>

\* vm.sign(privKey, digest): the signature names its signer and what it signed.
sign(signer, digest) == <<signer, digest>>

\* ecrecover: the signer of a signature.
recover(signature) == signature[1]

\* The requirements of transferWithAuthorization, in FiatToken's order.
TransferWithAuthorizationOutcome_NoNonceCheck(from, to, value, validAfter, validBefore, nonce, signature) ==
    IF ~(usdc.timestamp > validAfter) THEN "revert"
    ELSE IF ~(usdc.timestamp < validBefore) THEN "revert"
    ELSE IF signature # sign(from, _buildEIP3009Digest(from, to, value, validAfter,
                                                       validBefore, nonce))
         THEN "revert"
    ELSE IF ~(usdc.balanceOf[from] >= value) THEN "revert"
    ELSE "ok"

\* The requirements without the balance requirement of the transfer.
TransferWithAuthorizationOutcome_NoBalanceCheck(from, to, value, validAfter, validBefore, nonce, signature) ==
    IF ~(usdc.timestamp > validAfter) THEN "revert"
    ELSE IF ~(usdc.timestamp < validBefore) THEN "revert"
    ELSE IF <<from, nonce>> \in usdc.authorizationState THEN "revert"
    ELSE IF signature # sign(from, _buildEIP3009Digest(from, to, value, validAfter,
                                                       validBefore, nonce))
         THEN "revert"
    ELSE "ok"

\* The requirements without "authorization is not yet valid".
TransferWithAuthorizationOutcome_NoValidAfterCheck(from, to, value, validAfter, validBefore, nonce, signature) ==
    IF ~(usdc.timestamp < validBefore) THEN "revert"
    ELSE IF <<from, nonce>> \in usdc.authorizationState THEN "revert"
    ELSE IF signature # sign(from, _buildEIP3009Digest(from, to, value, validAfter,
                                                       validBefore, nonce))
         THEN "revert"
    ELSE IF ~(usdc.balanceOf[from] >= value) THEN "revert"
    ELSE "ok"

TransferWithAuthorizationOutcome(from, to, value, validAfter, validBefore, nonce, signature) ==
    IF ~(usdc.timestamp > validAfter) THEN "revert"
    ELSE IF ~(usdc.timestamp < validBefore) THEN "revert"
    ELSE IF <<from, nonce>> \in usdc.authorizationState THEN "revert"
    ELSE IF signature # sign(from, _buildEIP3009Digest(from, to, value, validAfter,
                                                       validBefore, nonce))
         THEN "revert"
    ELSE IF ~(usdc.balanceOf[from] >= value) THEN "revert"
    ELSE "ok"

\* USDC.transferWithAuthorization(from, to, value, validAfter, validBefore,
\* nonce, v, r, s): marks (from, nonce) used and moves value from from to to,
\* or reverts with nothing changed.
transferWithAuthorization(from, to, value, validAfter, validBefore, nonce, signature) ==
    LET outcome == TransferWithAuthorizationOutcome(from, to, value, validAfter,
                                                    validBefore, nonce, signature)
        call    == [value |-> value, fn |-> "transferWithAuthorization",
                    result |-> outcome, from |-> from, validAfter |-> validAfter,
                    validBefore |-> validBefore, nonce |-> nonce,
                    signer |-> recover(signature)]
        moved   == [a \in Payers |->
                       usdc.balanceOf[a] - (IF a = from THEN value ELSE 0)
                                         + (IF a = to THEN value ELSE 0)]
    IN  /\ usdc' = IF outcome = "ok"
                   THEN [usdc EXCEPT !.balanceOf = moved,
                                     !.authorizationState = @ \cup {<<from, nonce>>},
                                     !.settled = @ \cup {<<from, nonce>>},
                                     !.paid = @ \cup {[value |-> value, from |-> from,
                                                       nonce |-> nonce]},
                                     !.call = call]
                   ELSE [usdc EXCEPT !.call = call]
        /\ UNCHANGED <<chainVars, treeVars, pairVars, held, tasks, e2eRun, deployment, shell, mainRun, callStack, paidOut>>

\* vm.warp: block time moves forward.
warp ==
    /\ usdc.timestamp < MaxTime
    /\ usdc' = [usdc EXCEPT !.timestamp = @ + 1,
                            !.call = [value |-> 0, fn |-> "warp", result |-> "ok",
                                      from |-> PINION_PAYTO, validAfter |-> 0,
                                      validBefore |-> 0, nonce |-> 0,
                                      signer |-> PINION_PAYTO]]
    /\ UNCHANGED <<chainVars, treeVars, pairVars, held, tasks, e2eRun, attempts, deployment, shell, mainRun, callStack, paidOut>>

\* ---- DeployBaseSepolia.s.sol ------------------------------------------------
\* run() broadcasts three contract creations.  A created contract's address
\* is determined by its creator and the creator's nonce; a run can stop after
\* any transaction (out of gas money, RPC failure, the shell's timeout).

MaxDeployRuns == 2     \* how many times the script is run

Deployers    == {"deployerA", "deployerB"}   \* DEPLOYER_PRIVATE_KEY
NoAddress    == <<>>                         \* address(0)

NoDeployment ==
    [pc |-> "idle", runs |-> 0, deployer |-> "deployerA",
     honkVerifier |-> NoAddress,
     flightDelayInsuranceVerifier |-> NoAddress,
     flightDelayInsurance |-> NoAddress,
     nonces |-> [d \in Deployers |-> 0],
     created |-> <<>>]

\* new C(arg) inside the broadcast: the contract is created at the address
\* of (deployer, nonce), its constructor stores arg in its verifier field.
create(d, kind, arg) ==
    [d EXCEPT !.nonces[d.deployer] = @ + 1,
              !.created = Append(@, [kind |-> kind,
                                     address |-> <<d.deployer, d.nonces[d.deployer]>>,
                                     verifier |-> arg])]

lastCreated(d) == d.created[Len(d.created)].address

\* vm.startBroadcast(deployerPrivateKey), in a fresh script contract
run_startBroadcast(deployer) ==
    /\ deployment.pc = "idle"
    /\ deployment.runs < MaxDeployRuns
    /\ deployment' = [deployment EXCEPT !.pc = "HonkVerifier",
                                        !.deployer = deployer,
                                        !.honkVerifier = NoAddress,
                                        !.flightDelayInsuranceVerifier = NoAddress,
                                        !.flightDelayInsurance = NoAddress]
    /\ UNCHANGED <<chainVars, treeVars, pairVars, held, tasks, e2eRun, usdc, attempts, mainRun, callStack, paidOut>>

\* The argument of the FlightDelayInsurance constructor, with the fields of
\* the two verifiers mixed up.
insuranceVerifierArgument_HonkVerifier(d) == d.honkVerifier

\* new FlightDelayInsurance(address(flightDelayInsuranceVerifier))
insuranceVerifierArgument(d) == d.flightDelayInsuranceVerifier

\* Step 1: honkVerifier = new HonkVerifier()
run_deployHonkVerifier ==
    /\ deployment.pc = "HonkVerifier"
    /\ LET d == create(deployment, "HonkVerifier", NoAddress) IN
        deployment' = [d EXCEPT !.pc = "FlightDelayInsuranceVerifier",
                                !.honkVerifier = lastCreated(d)]
    /\ UNCHANGED <<chainVars, treeVars, pairVars, held, tasks, e2eRun, usdc, attempts, mainRun, callStack, paidOut>>

\* Step 2: flightDelayInsuranceVerifier =
\*             new FlightDelayInsuranceVerifier(address(honkVerifier))
run_deployFlightDelayInsuranceVerifier ==
    /\ deployment.pc = "FlightDelayInsuranceVerifier"
    /\ LET d == create(deployment, "FlightDelayInsuranceVerifier",
                       deployment.honkVerifier) IN
        deployment' = [d EXCEPT !.pc = "FlightDelayInsurance",
                                !.flightDelayInsuranceVerifier = lastCreated(d)]
    /\ UNCHANGED <<chainVars, treeVars, pairVars, held, tasks, e2eRun, usdc, attempts, mainRun, callStack, paidOut>>

\* Step 3: flightDelayInsurance =
\*             new FlightDelayInsurance(address(flightDelayInsuranceVerifier)),
\* then vm.stopBroadcast()
run_deployFlightDelayInsurance ==
    /\ deployment.pc = "FlightDelayInsurance"
    /\ LET d == create(deployment, "FlightDelayInsurance",
                       insuranceVerifierArgument(deployment)) IN
        deployment' = [d EXCEPT !.pc = "idle",
                                !.runs = @ + 1,
                                !.flightDelayInsurance = lastCreated(d)]
    /\ UNCHANGED <<chainVars, treeVars, pairVars, held, tasks, e2eRun, usdc, attempts, mainRun, callStack, paidOut>>

\* The run stops before its next transaction is mined.
run_fails ==
    /\ deployment.pc # "idle"
    /\ deployment' = [deployment EXCEPT !.pc = "idle", !.runs = @ + 1]
    /\ UNCHANGED <<chainVars, treeVars, pairVars, held, tasks, e2eRun, usdc, attempts, mainRun, callStack, paidOut>>

\* ---- DeployBaseSepolia.sh ----------------------------------------------------
\* The script parses its arguments at top level, then calls main, which
\* checks the prerequisites, loads .env, builds, calls deploy_contracts
\* (forge script ... --broadcast), updates .env and verifies on BaseScan.

CommandLines ==
    {<<>>, <<"--dry-run">>, <<"--skip-verification">>,
     <<"--dry-run", "--skip-verification">>, <<"--help">>, <<"--force">>}

NoShell ==
    [args |-> <<>>, pc |-> "idle", SKIP_VERIFICATION |-> FALSE, DRY_RUN |-> FALSE,
     exit |-> -1, verified |-> FALSE]

\* $0 "$@": SKIP_VERIFICATION=false, DRY_RUN=false, then the while loop
invoke(args) ==
    /\ shell.pc \in {"idle", "exited"}
    /\ deployment.pc = "idle"
    /\ deployment.runs < MaxDeployRuns
    /\ shell' = [NoShell EXCEPT !.pc = "parse", !.args = args]
    /\ UNCHANGED <<chainVars, treeVars, pairVars, held, tasks, e2eRun, usdc, attempts,
                   deployment, mainRun, callStack, paidOut>>

\* while [ $# -gt 0 ]; do case $1 in ... esac; done; main
parseArgument ==
    /\ shell.pc = "parse"
    /\ shell' =
          IF shell.args = <<>> THEN [shell EXCEPT !.pc = "main"]
          ELSE LET arg == Head(shell.args) IN
               IF arg \in {"-h", "--help"}
               THEN [shell EXCEPT !.pc = "exited", !.exit = 0]
               ELSE IF arg = "--skip-verification"
               THEN [shell EXCEPT !.SKIP_VERIFICATION = TRUE, !.args = Tail(@)]
               ELSE IF arg = "--dry-run"
               THEN [shell EXCEPT !.DRY_RUN = TRUE, !.args = Tail(@)]
               ELSE [shell EXCEPT !.pc = "exited", !.exit = 1]
    /\ UNCHANGED <<chainVars, treeVars, pairVars, held, tasks, e2eRun, usdc, attempts,
                   deployment, mainRun, callStack, paidOut>>

\* main: check_foundry, check_node, check_dependencies, load_env,
\* build_contracts, each "|| exit 1"
main_prepare(ok) ==
    /\ shell.pc = "main"
    /\ shell' = IF ok THEN [shell EXCEPT !.pc = "deploy_contracts"]
                ELSE [shell EXCEPT !.pc = "exited", !.exit = 1]
    /\ UNCHANGED <<chainVars, treeVars, pairVars, held, tasks, e2eRun, usdc, attempts,
                   deployment, mainRun, callStack, paidOut>>

\* Whether deploy_contracts passes --broadcast to forge script, were it to
\* leave it out in dry-run mode.
deployCommandBroadcasts_UnlessDryRun(sh) == ~sh.DRY_RUN

\* deploy_contracts: DEPLOY_CMD="forge script ... --broadcast -vvv"
deployCommandBroadcasts(sh) == TRUE

\* deploy_contracts runs DEPLOY_CMD: with --broadcast forge sends the
\* transactions of DeployBaseSepolia.run, without it forge only simulates.
deploy_contracts(deployer) ==
    /\ shell.pc = "deploy_contracts"
    /\ IF deployCommandBroadcasts(shell)
       THEN /\ run_startBroadcast(deployer)
            /\ shell' = [shell EXCEPT !.pc = "forge"]
       ELSE /\ shell' = [shell EXCEPT !.pc = "update_env_file"]
            /\ UNCHANGED <<chainVars, treeVars, pairVars, held, tasks, e2eRun, usdc,
                           attempts, deployment, mainRun, callStack, paidOut>>

\* forge script has ended: a timeout makes deploy_contracts return 1 and main
\* exit 1; otherwise main goes on.
deploy_contracts_returns(timedOut) ==
    /\ shell.pc = "forge"
    /\ deployment.pc = "idle"
    /\ shell' = IF timedOut THEN [shell EXCEPT !.pc = "exited", !.exit = 1]
                ELSE [shell EXCEPT !.pc = "update_env_file"]
    /\ UNCHANGED <<chainVars, treeVars, pairVars, held, tasks, e2eRun, usdc, attempts,
                   deployment, mainRun, callStack, paidOut>>

\* update_env_file, verify_contracts (skipped on SKIP_VERIFICATION),
\* print_summary
main_finish ==
    /\ shell.pc = "update_env_file"
    /\ shell' = [shell EXCEPT !.pc = "exited", !.exit = 0,
                              !.verified = ~shell.SKIP_VERIFICATION]
    /\ UNCHANGED <<chainVars, treeVars, pairVars, held, tasks, e2eRun, usdc, attempts,
                   deployment, mainRun, callStack, paidOut>>

\* ---- e2e.ts main ------------------------------------------------------------
\* main runs its steps in order, awaiting each: the environment check, step 1
\* (proof generation), step 2 (two read-only verifier calls), step 2.5
\* (buyPolicyOnChain), step 3 (submitClaimOnChain).  process.exit(1) and the
\* catch of main() end the run with exit code 1.

\* What a read-only verifier call gives the script: the returned bool, or an
\* exception (the call reverted, the RPC failed).
ReadResults == {"true", "false", "thrown"}

NoMain ==
    [policyId |-> 0, policyTreeRoot |-> ZERO_BYTES32, pc |-> "idle",
     sent |-> <<>>, runs |-> 0, exit |-> -1,
     isValidHonk |-> "none", isValidDomain |-> "none", buyPolicyStep |-> "none"]

\* process.exit(code), or main returning (code 0).
main_exit(m, code) == [m EXCEPT !.pc = "exited", !.exit = code]

\* The run starts: the missingEnv check.
main_missingEnv(missing) ==
    /\ mainRun.pc \in {"idle", "exited"}
    /\ mainRun.runs < E2E_MaxRuns
    /\ LET m == [NoMain EXCEPT !.runs = mainRun.runs + 1] IN
       mainRun' = IF missing THEN main_exit(m, 1) ELSE [m EXCEPT !.pc = "generate"]
    /\ UNCHANGED <<chainVars, treeVars, pairVars, held, tasks, e2eRun, usdc, attempts,
                   deployment, shell, callStack, paidOut>>

\* Step 1: generateZKProofOffChain() returns the proof, the policyId and the
\* root for buyPolicy, or throws.
main_generateZKProofOffChain(policyId, policyTreeRoot, thrown) ==
    /\ mainRun.pc = "generate"
    /\ mainRun' = IF thrown THEN main_exit(mainRun, 1)
                  ELSE [mainRun EXCEPT !.pc = "verifyHonk",
                                       !.policyId = policyId,
                                       !.policyTreeRoot = policyTreeRoot]
    /\ UNCHANGED <<chainVars, treeVars, pairVars, held, tasks, e2eRun, usdc, attempts,
                   deployment, shell, callStack, paidOut>>

\* Step 2, first call: isValidHonk = readContract(HonkVerifier.verify).
verifyZKProofOnChain_isValidHonk(result) ==
    /\ mainRun.pc = "verifyHonk"
    /\ mainRun' = IF result = "thrown" THEN main_exit(mainRun, 1)
                  ELSE [mainRun EXCEPT !.pc = "verifyDomain", !.isValidHonk = result]
    /\ UNCHANGED <<chainVars, treeVars, pairVars, held, tasks, e2eRun, usdc, attempts,
                   deployment, shell, callStack, paidOut>>

\* main without "if (!proofIsValid) process.exit(1)".
main_aborts_Never(isValidHonk, isValidDomain) == FALSE

\* const proofIsValid = isValidHonk && isValidDomain;
\* if (!proofIsValid) process.exit(1)
main_aborts(isValidHonk, isValidDomain) ==
    ~(isValidHonk = "true" /\ isValidDomain = "true")

\* Step 2, second call: isValidDomain =
\* readContract(FlightDelayInsuranceVerifier.verifyFlightDelayInsuranceProof),
\* made whatever the first call returned; then main's check of the result.
verifyZKProofOnChain_isValidDomain(result) ==
    /\ mainRun.pc = "verifyDomain"
    /\ mainRun' = IF result = "thrown" THEN main_exit(mainRun, 1)
                  ELSE IF main_aborts(mainRun.isValidHonk, result)
                  THEN main_exit([mainRun EXCEPT !.isValidDomain = result], 1)
                  ELSE [mainRun EXCEPT !.pc = "buyPolicyOnChain", !.isValidDomain = result]
    /\ UNCHANGED <<chainVars, treeVars, pairVars, held, tasks, e2eRun, usdc, attempts,
                   deployment, shell, callStack, paidOut>>

\* Step 2.5 begins: buyPolicyOnChain reads the policy slot.
main_buyPolicyOnChain_readContract ==
    /\ mainRun.pc = "buyPolicyOnChain"
    /\ buyPolicyOnChain_readContract(mainRun.policyId, mainRun.policyTreeRoot)
    /\ mainRun' = [mainRun EXCEPT !.pc = "buyPolicy"]

\* Step 2.5 ends: buyPolicyOnChain returns (skipped or purchased) or throws.
main_buyPolicyOnChain ==
    /\ mainRun.pc = "buyPolicy"
    /\ buyPolicyOnChain
    /\ LET m == [mainRun EXCEPT !.buyPolicyStep = e2eRun'.outcome,
                                !.sent = IF e2eRun'.sent = 1
                                         THEN Append(@, "buyPolicy") ELSE @]
       IN  mainRun' = IF e2eRun'.outcome \in {"skipped", "purchased"}
                      THEN [m EXCEPT !.pc = "submitClaimOnChain"]
                      ELSE main_exit(m, 1)

\* The read of policyTreeRoots (logged only), then step 3's read of
\* Policy.claimed: an already claimed policy ends the run normally.
submitClaimOnChain_readContract ==
    /\ mainRun.pc = "submitClaimOnChain"
    /\ mainRun' = IF policies[mainRun.policyId].claimed THEN main_exit(mainRun, 0)
                  ELSE [mainRun EXCEPT !.pc = "claim"]
    /\ UNCHANGED <<chainVars, treeVars, pairVars, held, tasks, e2eRun, usdc, attempts,
                   deployment, shell, callStack, paidOut>>

\* Step 3: writeContract(claim) with the generated proof and its public
\* inputs; a reverted receipt throws.
submitClaimOnChain_writeContract ==
    /\ mainRun.pc = "claim"
    /\ LET publicInputs == <<mainRun.policyTreeRoot, "nhA">>
           proof        == SoundProof(publicInputs[1], publicInputs[2]) IN
        /\ claim(E2EWallet, mainRun.policyId, proof, publicInputs)
        /\ mainRun' = main_exit([mainRun EXCEPT !.sent = Append(@, "claim")],
                                IF ClaimOutcome(E2EWallet, mainRun.policyId, proof,
                                                publicInputs) = "ok"
                                THEN 0 ELSE 1)

\* ---- claim and the code its payee runs ---------------------------------------
\* payable(msg.sender).transfer(p.payoutAmount) hands control to msg.sender,
\* which may be a contract: while it receives the payout it can call claim
\* again, and it can make the transfer fail by reverting.  A call that reverts
\* undoes every change made inside it, nested calls included.

MaxCallDepth == 2     \* how deep claim calls nest

NoPayouts == [id \in PolicyIds |-> 0]

\* A frame of the call stack: the caller and policyId of a claim call whose
\* transfer is in progress, and the state to return to if the call reverts.
Frame(sender, policyId) == <<sender, policyId, policies, ethBalance, accepted, paidOut>>

\* claim writing p.claimed only after the transfer has returned.
claimedBeforeTransfer_After == FALSE

\* p.claimed = true; precedes payable(msg.sender).transfer(p.payoutAmount).
claimedBeforeTransfer == TRUE

\* claim(policyId, proof, publicInputs) up to the moment the payee receives
\* the payout, called by an account in a transaction of its own or by the
\* payee of the innermost claim call in progress.  A failing require, a
\* transfer the balance cannot cover and a call that runs out of gas revert
\* the call at once.
claim_call(sender, policyId, proof, publicInputs, outOfGas) ==
    /\ Len(callStack) < MaxCallDepth
    /\ callStack # <<>> => sender = callStack[Len(callStack)][1]
    /\ callStack = <<>> => ~outOfGas
    /\ LET p       == policies[policyId]
           outcome == IF outOfGas THEN "out of gas"
                      ELSE ClaimOutcome(sender, policyId, proof, publicInputs) IN
        /\ chainCall' = [fn |-> "claim", sender |-> sender, policyId |-> policyId,
                         value |-> 0, result |-> outcome]
        /\ IF outcome = "ok"
           THEN /\ policies' = [policies EXCEPT ![policyId].claimed = claimedBeforeTransfer]
                /\ ethBalance' = [ethBalance EXCEPT ![Contract] = @ - p.payoutAmount,
                                                    ![sender] = @ + p.payoutAmount]
                /\ accepted' = Append(accepted,
                                   [policyId |-> policyId, publicInputs |-> publicInputs])
                /\ paidOut' = [paidOut EXCEPT ![policyId] = @ + p.payoutAmount]
                /\ callStack' = Append(callStack, Frame(sender, policyId))
           ELSE UNCHANGED <<policies, ethBalance, accepted, paidOut, callStack>>
    /\ UNCHANGED <<policyTreeRoots, treeVars, pairVars, held, tasks, e2eRun, usdc, attempts,
                   deployment, shell, mainRun>>

\* The payee's code ends.  If it returns, transfer returns and claim ends
\* with p.claimed set; if it reverts, transfer reverts and with it the whole
\* claim call.
claim_return(reverted) ==
    /\ callStack # <<>>
    /\ LET frame == callStack[Len(callStack)] IN
        /\ callStack' = SubSeq(callStack, 1, Len(callStack) - 1)
        /\ chainCall' = [fn |-> "claim", sender |-> frame[1], policyId |-> frame[2],
                         value |-> 0,
                         result |-> IF reverted THEN "transfer failed" ELSE "ok"]
        /\ IF reverted
           THEN /\ policies' = frame[3]
                /\ ethBalance' = frame[4]
                /\ accepted' = frame[5]
                /\ paidOut' = frame[6]
           ELSE /\ policies' = [policies EXCEPT ![frame[2]].claimed = TRUE]
                /\ UNCHANGED <<ethBalance, accepted, paidOut>>
    /\ UNCHANGED <<policyTreeRoots, treeVars, pairVars, held, tasks, e2eRun, usdc, attempts,
                   deployment, shell, mainRun>>

InitExt ==
    /\ held = NoProof
    /\ tasks = [id \in Tasks |-> IdleTask]
    /\ e2eRun = NoRun
    /\ usdc = InitUsdc
    /\ attempts = {}
    /\ deployment = NoDeployment
    /\ shell = NoShell
    /\ mainRun = NoMain
    /\ callStack = <<>>
    /\ paidOut = NoPayouts

-----------------------------------------------------------------------------
(* Specifications.                                                         *)

\* The contract under arbitrary transactions.
Init == InitChain /\ InitTreeWith(<<>>) /\ InitPairIdle /\ InitExt

Next == BuyPolicyStep \/ ClaimStep \/ ReceiveStep

Spec == Init /\ [][Next]_vars

\* The contract with the e2e script's step 2.5 run against it, other accounts
\* and other scripts sending their own transactions meanwhile.
ReadContractStep ==
    \E policyId \in PolicyIds, policyTreeRoot \in Roots :
        buyPolicyOnChain_readContract(policyId, policyTreeRoot) /\ UNCHANGED mainRun

BuyPolicyOnChainStep == buyPolicyOnChain /\ UNCHANGED mainRun

\* The transactions of other runs of the script, by this wallet or another:
\* step 2.5's buyPolicy with the premium, and step 3's claim with the proof
\* generated for the policy's stored root and the nullifier hash of the
\* script's fixed salt; the contract is funded through receive().
E2EBuyPolicyStep ==
    \E sender \in Accounts, root \in Roots, id \in PolicyIds :
        buyPolicy(sender, root, id, 0, 1, E2E_PREMIUM) /\ UNCHANGED <<e2eRun, mainRun, callStack, paidOut>>

E2EClaimStep ==
    \E sender \in Accounts, id \in PolicyIds :
        LET publicInputs == <<policyTreeRoots[id], "nhA">> IN
        /\ claim(sender, id, SoundProof(publicInputs[1], publicInputs[2]), publicInputs)
        /\ UNCHANGED mainRun

NextE2E ==
    \/ E2EBuyPolicyStep
    \/ E2EClaimStep
    \/ ReceiveStep
    \/ ReadContractStep
    \/ BuyPolicyOnChainStep

SpecE2E == Init /\ [][NextE2E]_vars

\* ---- e2e.ts main, run by one wallet while others buy and fund --------------
MainMissingEnvStep == \E missing \in BOOLEAN : main_missingEnv(missing)

MainGenerateStep ==
    \E policyId \in PolicyIds, policyTreeRoot \in Roots, thrown \in BOOLEAN :
        main_generateZKProofOffChain(policyId, policyTreeRoot, thrown)

MainIsValidHonkStep == \E result \in ReadResults : verifyZKProofOnChain_isValidHonk(result)

MainIsValidDomainStep == \E result \in ReadResults : verifyZKProofOnChain_isValidDomain(result)

MainBuyReadStep == main_buyPolicyOnChain_readContract

MainBuyStep == main_buyPolicyOnChain

MainClaimReadStep == submitClaimOnChain_readContract

MainClaimStep == submitClaimOnChain_writeContract

\* Another wallet buys a policy before this one does.
OtherWalletBuysStep ==
    \E policyTreeRoot \in Roots, id \in PolicyIds :
        /\ buyPolicy("bob", policyTreeRoot, id, 0, 1, E2E_PREMIUM)
        /\ UNCHANGED <<e2eRun, mainRun, callStack, paidOut>>

NextMain ==
    \/ MainMissingEnvStep
    \/ MainGenerateStep
    \/ MainIsValidHonkStep
    \/ MainIsValidDomainStep
    \/ MainBuyReadStep
    \/ MainBuyStep
    \/ MainClaimReadStep
    \/ MainClaimStep
    \/ OtherWalletBuysStep
    \/ ReceiveStep

SpecMain == Init /\ [][NextMain]_vars

\* ---- claims of every kind against policies bought with the premium --------
NextClaim == E2EBuyPolicyStep \/ ClaimStep \/ ReceiveStep

SpecClaim == Init /\ [][NextClaim]_vars

\* ---- claim with a payee that runs code ---------------------------------------
\* Transactions start only when no call is in progress.
TransactionBuyPolicyStep == callStack = <<>> /\ E2EBuyPolicyStep

TransactionReceiveStep == callStack = <<>> /\ ReceiveStep

ClaimCallStep ==
    \E sender \in Accounts, id \in PolicyIds, outOfGas \in BOOLEAN :
        \E proof \in {SoundProof(policyTreeRoots[id], "nhA"), Garbage} :
            claim_call(sender, id, proof, <<policyTreeRoots[id], "nhA">>, outOfGas)

ClaimReturnStep == \E reverted \in BOOLEAN : claim_return(reverted)

NextReentrant ==
    \/ TransactionBuyPolicyStep
    \/ TransactionReceiveStep
    \/ ClaimCallStep
    \/ ClaimReturnStep

SpecReentrant == Init /\ [][NextReentrant]_vars

\* ---- holders claiming what they bought ---------------------------------------
\* The holder of an unclaimed policy calls claim with the proof generated for
\* the policy's stored root, and calls again as long as the call reverts.
\* Nobody is obliged to send wei to the contract through receive().
HolderClaimStep ==
    \E id \in PolicyIds :
        LET publicInputs == <<policyTreeRoots[id], "nhA">> IN
        /\ policies[id].holder # ZERO_ADDRESS
        /\ ~policies[id].claimed
        /\ claim(policies[id].holder, id,
                 SoundProof(publicInputs[1], publicInputs[2]), publicInputs)
        /\ UNCHANGED mainRun

NextPayout == E2EBuyPolicyStep \/ HolderClaimStep \/ ReceiveStep

FairSpecPayout == Init /\ [][NextPayout]_vars /\ WF_vars(HolderClaimStep)

\* Every await of main settles (a result or an exception), so a run that has
\* started goes on to its next step.
MainRunStep ==
    \/ MainGenerateStep
    \/ MainIsValidHonkStep
    \/ MainIsValidDomainStep
    \/ MainBuyReadStep
    \/ MainBuyStep
    \/ MainClaimReadStep
    \/ MainClaimStep

FairSpecMain == SpecMain /\ WF_vars(MainRunStep)

\* USDC with signed payment authorizations submitted by the facilitator.
TransferWithAuthorizationStep ==
    \E from \in Payers, signer \in Payers, value \in UsdcValues,
       window \in Windows, nonce \in Nonces :
        LET validAfter  == window[1]
            validBefore == window[2]
        IN  /\ transferWithAuthorization(from, PINION_PAYTO, value, validAfter,
                    validBefore, nonce,
                    sign(signer, _buildEIP3009Digest(from, PINION_PAYTO, value,
                             validAfter, validBefore, nonce)))
            /\ UNCHANGED attempts

WarpStep == warp

NextUsdc == TransferWithAuthorizationStep \/ WarpStep

SpecUsdc == Init /\ [][NextUsdc]_vars

\* The deployment script, run up to MaxDeployRuns times by either deployer.
StartBroadcastStep ==
    \E deployer \in Deployers : run_startBroadcast(deployer) /\ UNCHANGED shell

DeployHonkVerifierStep == run_deployHonkVerifier /\ UNCHANGED shell

DeployFlightDelayInsuranceVerifierStep ==
    run_deployFlightDelayInsuranceVerifier /\ UNCHANGED shell

DeployFlightDelayInsuranceStep == run_deployFlightDelayInsurance /\ UNCHANGED shell

RunFailsStep == run_fails /\ UNCHANGED shell

NextDeploy ==
    \/ StartBroadcastStep
    \/ DeployHonkVerifierStep
    \/ DeployFlightDelayInsuranceVerifierStep
    \/ DeployFlightDelayInsuranceStep
    \/ RunFailsStep

SpecDeploy == Init /\ [][NextDeploy]_vars

\* The shell script, invoked with each command line, driving the deployment.
InvokeStep == \E args \in CommandLines : invoke(args)

MainPrepareStep == \E ok \in BOOLEAN : main_prepare(ok)

DeployContractsStep == \E deployer \in Deployers : deploy_contracts(deployer)

DeployContractsReturnsStep == \E timedOut \in BOOLEAN : deploy_contracts_returns(timedOut)

ForgeStep ==
    /\ shell.pc = "forge"
    /\ \/ run_deployHonkVerifier
       \/ run_deployFlightDelayInsuranceVerifier
       \/ run_deployFlightDelayInsurance
       \/ run_fails
    /\ UNCHANGED shell

NextShell ==
    \/ InvokeStep
    \/ parseArgument
    \/ MainPrepareStep
    \/ DeployContractsStep
    \/ ForgeStep
    \/ DeployContractsReturnsStep
    \/ main_finish

SpecShell == Init /\ [][NextShell]_vars

\* The validity-window tests: the user signs an authorization, the
\* facilitator submits it, time is warped, and it is submitted again.  The
\* authorizations submitted while block time was not yet after validAfter are
\* remembered, with the signature they carried.
submitAuthorization(from, value, validAfter, validBefore, nonce, signer) ==
    LET signature == sign(signer, _buildEIP3009Digest(from, PINION_PAYTO, value,
                                      validAfter, validBefore, nonce))
    IN  /\ transferWithAuthorization(from, PINION_PAYTO, value, validAfter,
                                     validBefore, nonce, signature)
        /\ attempts' = IF ~(usdc.timestamp > validAfter)
                       THEN attempts \cup {<<from, value, validAfter, validBefore,
                                              nonce, signer>>}
                       ELSE attempts

SubmitAuthorizationStep ==
    \E signer \in Payers, window \in Windows, nonce \in Nonces :
        submitAuthorization("PinionUser", PINION_SKILL_COST, window[1], window[2],
                            nonce, signer)

NextWindow == SubmitAuthorizationStep \/ WarpStep

SpecWindow == Init /\ [][NextWindow]_vars

\* The accumulator under arbitrary calls.
InitTree ==
    /\ InitChain
    /\ \E leaves \in InitialLeafArrays : InitTreeWith(leaves)
    /\ InitPairIdle
    /\ InitExt

InsertLeafStep == \E c \in Commitments : insertLeaf(c)

InsertLeavesStep == \E cs \in Batches : insertLeaves(cs)

CreateMerkleProofStep == \E i \in ProofIndices : callCreateMerkleProof(i)

VerifyMerkleProofStep ==
    \E c \in Commitments, i \in ProofIndices : callVerifyMerkleProof(c, i)

ReadLeafIndexStep == \E c \in Commitments : readLeafIndex(c)

NextTree ==
    \/ InsertLeafStep
    \/ InsertLeavesStep
    \/ readMerkleRoot
    \/ readTreeSize
    \/ ReadLeafIndexStep
    \/ CreateMerkleProofStep
    \/ VerifyMerkleProofStep

SpecTree == InitTree /\ [][NextTree]_vars

\* Two accumulators, the first created with initial leaves, both fed
\* insertions.
PairInitialArrays == UNION { [1..n -> Commitments] : n \in 0..PairMaxLeaves }

InitPair ==
    /\ InitChain
    /\ InitTreeWith(<<>>)
    /\ \E leaves \in PairInitialArrays : InitPairWith(leaves)
    /\ InitExt

PairInsertStep == \E which \in {"A", "B"}, c \in Commitments : pairInsertLeaf(which, c)

PairReadStep == \E which \in {"A", "B"} : pairReadMerkleRoot(which)

NextPair == PairInsertStep \/ PairReadStep

SpecPair == InitPair /\ [][NextPair]_vars

\* A script keeps a proof while leaves are inserted into the tree.
KeepMerkleProofStep == \E i \in ProofIndices : keepMerkleProof(i)

NextStale == InsertLeafStep \/ KeepMerkleProofStep

SpecStale == InitTree /\ [][NextStale]_vars

\* Requests arrive in any order and are served on the one tree instance,
\* which is empty or has one free slot left.
InitTasks ==
    /\ InitChain
    /\ \E leaves \in { Filler(0), Filler(Capacity - 1) } : InitTreeWith(leaves)
    /\ InitPairIdle
    /\ InitExt

BeginInsertLeafStep ==
    \E id \in Tasks, c \in Commitments : beginInsertLeaf(id, c)

ContinueInsertLeafStep == \E id \in Tasks : continueInsertLeaf(id)

TaskGetMerkleRootStep == \E id \in Tasks : taskGetMerkleRoot(id)

NextTasks ==
    \/ BeginInsertLeafStep
    \/ ContinueInsertLeafStep
    \/ TaskGetMerkleRootStep

SpecTasks == InitTasks /\ [][NextTasks]_vars

\* The off-chain pipeline: policies are registered as leaves, proofs are
\* generated and handed to the chain.
ProverPolicyIds      == {1, 2}
ProverPassengerHashes == { generatePassengerHash(BigInt(1), BigInt(2), BigInt(3)) }
ProverSalts          == { BigInt(1), BigInt(2) }

\* The leaves a script inserts: policy commitments and a dummy leaf.
ProverLeaves ==
    { generatePolicyCommitment(id, ph, salt) :
          id \in ProverPolicyIds, ph \in ProverPassengerHashes, salt \in ProverSalts }
        \cup { BigInt(1) }

ProverPrivateInputs ==
    { [passengerNameHash |-> BigInt(3), ticketNumberHash |-> BigInt(1),
       flightNumberHash |-> BigInt(2), salt |-> salt, passengerHash |-> ph] :
          salt \in ProverSalts, ph \in ProverPassengerHashes }

\* The public inputs of a call: the tree's current root or the root of the
\* empty tree.
ProverPublicInputs ==
    { [policyTreeRoot |-> root, policyId |-> id,
       coverageStart |-> 0, coverageEnd |-> 1, delayThreshold |-> 1] :
          root \in { getMerkleRoot(tree), getMerkleRoot(createMerkleTree(<<>>)) },
          id \in ProverPolicyIds }

ProverEnvs ==
    [apiCreated : BOOLEAN, flightDataOk : BOOLEAN, proved : BOOLEAN]

InitProver == InitChain /\ InitTreeWith(<<>>) /\ InitPairIdle /\ InitExt

ProverInsertLeafStep == \E c \in ProverLeaves : insertLeaf(c)

GenerateProofStep ==
    \E privateInputs \in ProverPrivateInputs, publicInputs \in ProverPublicInputs,
       env \in ProverEnvs :
        callGenerateProof(privateInputs, publicInputs, env)

NextProver ==
    \/ ProverInsertLeafStep
    \/ GenerateProofStep
    \/ verifyZKProofOnChain
    \/ submitClaimOnChain
    \/ verifyZKProofOnChain_part_006
    \/ submitClaimOnChain_part_006

SpecProver == InitProver /\ [][NextProver]_vars

\* Nullifiers are derived for commitments and salts.
NullifierSalts == { BigInt(1), BigInt(2), BigInt(3) }

DeriveNullifierStep ==
    \E c \in ProverLeaves, salt \in NullifierSalts : deriveNullifier(c, salt)

NextNullifier == DeriveNullifierStep

SpecNullifier == InitProver /\ [][NextNullifier]_vars

-----------------------------------------------------------------------------
(* Properties of FlightDelayInsurance, checked under Spec.                 *)

\* C1: a claim whose nullifier hash (the second public input) was already
\* presented by an earlier successful claim is rejected, also when the two
\* claims name different policyIds: no two successful claims carry the same
\* nullifier hash.
C1_NullifierNeverAcceptedTwice ==
    \A i, j \in 1..Len(accepted) :
        i # j => accepted[i].publicInputs[2] # accepted[j].publicInputs[2]

\* C2: for every policyId at most one claim ever succeeds: once
\* Policy.claimed is true it stays true, and every later claim for that
\* policyId reverts with "Already claimed".
C2_AtMostOneClaimPerPolicy ==
    /\ [](\A id \in PolicyIds :
            /\ Cardinality({ i \in 1..Len(accepted) : accepted[i].policyId = id }) <= 1
            /\ (\E i \in 1..Len(accepted) : accepted[i].policyId = id)
                   => policies[id].claimed)
    /\ [][\A id \in PolicyIds :
            policies[id].claimed =>
                /\ policies'[id].claimed
                /\ (chainCall'.fn = "claim" /\ chainCall'.policyId = id)
                       => chainCall'.result = "Already claimed"]_vars

\* C2 witness: a policy was claimed successfully and a later claim for it,
\* sent by its holder, was rejected with "Already claimed".
C2_Witness ==
    /\ chainCall.fn = "claim"
    /\ chainCall.result = "Already claimed"
    /\ chainCall.sender = policies[chainCall.policyId].holder
    /\ \E i \in 1..Len(accepted) : accepted[i].policyId = chainCall.policyId

\* C3: claim fails with "Invalid proof" whenever the Merkle root carried in
\* the public inputs differs from the root buyPolicy stored in
\* policyTreeRoots[policyId]: every successful claim carries the stored root.
C3_ClaimRootIsStoredRoot ==
    \A i \in 1..Len(accepted) :
        accepted[i].publicInputs[1] = policyTreeRoots[accepted[i].policyId]

-----------------------------------------------------------------------------
(* Properties of the accumulator, checked under SpecTree.                  *)

ValidIndices == 0..(getTreeSize(tree) - 1)

\* C4: inclusion round trip: for every index i below the number of leaves
\* inserted, the proof from createMerkleProof(tree, i) verifies the i-th
\* inserted leaf against getMerkleRoot(tree).
C4_InclusionRoundTrip ==
    \A i \in ValidIndices :
        verifyInclusion(getMerkleRoot(tree), inserted[i + 1], createMerkleProof(tree, i))

\* C4 witness: a proof was generated for the last leaf of a full tree, whose
\* siblings are all nodes the insertions computed, and it verifies.
C4_Witness ==
    /\ treeCall.fn = "createMerkleProof"
    /\ treeCall.outcome = "ok"
    /\ getTreeSize(tree) = Capacity
    /\ treeCall.index = Capacity - 1
    /\ verifyInclusion(getMerkleRoot(tree), inserted[Capacity], treeCall.ret)

\* C5: verifyMerkleProof(tree, leaf, leafIndex) returns true only if the
\* given leaf, hashed up through the proof's siblings, reproduces the root:
\* it returns false for a leaf different from the one stored at leafIndex.
C5_VerifyRejectsWrongLeaf ==
    (/\ treeCall.fn = "verifyMerkleProof"
     /\ treeCall.outcome = "ok"
     /\ treeCall.leaf # inserted[treeCall.index + 1])
        => treeCall.ret = Boolean(FALSE)

\* The values a sibling of the given level (1 = the leaves) is replaced by:
\* every commitment, every zero value, every node of that level, the root.
TamperValues(level) ==
    { toString(c) : c \in Commitments }
        \cup { toString(tree.zeroes[l]) : l \in 1..tree.depth }
        \cup { toString(tree.nodes[level][k]) : k \in 1..Len(tree.nodes[level]) }
        \cup { getMerkleRoot(tree) }

\* The proof with the sibling of one level replaced.
Tampered(proof, level, x) == [proof EXCEPT !.siblings[level] = x]

\* C6: for a proof generated by createMerkleProof for an inserted leaf,
\* replacing any single sibling by a different value makes inclusion
\* verification against the unchanged root return false.
C6_TamperedSiblingRejected ==
    (treeCall.fn = "createMerkleProof" /\ treeCall.outcome = "ok") =>
        \A level \in 1..Len(treeCall.ret.siblings) :
            \A x \in TamperValues(level) :
                x # treeCall.ret.siblings[level] =>
                    ~verifyInclusion(getMerkleRoot(tree), inserted[treeCall.index + 1],
                                     Tampered(treeCall.ret, level, x))

\* C6 witness: a generated proof that verifies, and for each of its levels a
\* replacement value different from the sibling there.
C6_Witness ==
    /\ treeCall.fn = "createMerkleProof"
    /\ treeCall.outcome = "ok"
    /\ getTreeSize(tree) >= 2
    /\ verifyInclusion(getMerkleRoot(tree), inserted[treeCall.index + 1], treeCall.ret)
    /\ \A level \in 1..Len(treeCall.ret.siblings) :
           \E x \in TamperValues(level) :
               /\ x # treeCall.ret.siblings[level]
               /\ ~verifyInclusion(getMerkleRoot(tree), inserted[treeCall.index + 1],
                                   Tampered(treeCall.ret, level, x))

\* C7: capacity boundary: with depth 6 and arity 2 the first 64 insertions
\* (initial leaves counted) succeed, and an insertLeaf into a tree of 64
\* leaves fails with the capacity error and adds nothing.
C7_CapacityBoundary ==
    /\ getTreeSize(tree) <= 64
    /\ treeCall.fn = "insertLeaf" =>
           /\ treeCall.sizeBefore < 64 =>
                  (treeCall.outcome = "ok" /\ getTreeSize(tree) = treeCall.sizeBefore + 1)
           /\ treeCall.sizeBefore >= 64 =>
                  (treeCall.outcome = "The tree is full"
                       /\ getTreeSize(tree) = treeCall.sizeBefore)

\* C7 witness: the 64th insertion succeeded and the 65th was refused.
C7_Witness ==
    /\ treeCall.fn = "insertLeaf"
    /\ treeCall.sizeBefore = 64
    /\ treeCall.outcome = "The tree is full"
    /\ Len(inserted) = 64

\* C8 as stated: the k-th successful insert returns the index k.
C8_InsertReturnsIndex ==
    (treeCall.fn = "insertLeaf" /\ treeCall.outcome = "ok")
        => treeCall.ret = Number(treeCall.sizeBefore)

\* C8 amended: the accumulator is append-only: a successful insertLeaf
\* places its leaf at the index equal to the number of leaves before the
\* call and returns no value; leaves already in the tree never change value
\* or index; the leaf count never decreases.
C8_AppendOnly ==
    [][LET old == getTreeLeaves(tree)
           new == getTreeLeaves(tree')
       IN  /\ Len(new) >= Len(old)
           /\ \A i \in 1..Len(old) : new[i] = old[i]
           /\ (treeCall'.fn = "insertLeaf" /\ treeCall'.outcome = "ok") =>
                  /\ Len(new) = Len(old) + 1
                  /\ new[Len(old) + 1] = treeCall'.leaf
                  /\ treeCall'.ret = Undefined]_vars

\* C8 witness: an insertLeaf into a tree that already held leaves succeeded
\* and its leaf is at the index equal to the size before the call.
C8_Witness ==
    /\ treeCall.fn = "insertLeaf"
    /\ treeCall.outcome = "ok"
    /\ treeCall.sizeBefore >= 1
    /\ getTreeLeaves(tree)[treeCall.sizeBefore + 1] = treeCall.leaf
    /\ getTreeSize(tree) = treeCall.sizeBefore + 1

\* C10: in every reachable tree and for every inserted index the proof has
\* exactly 6 siblings and 6 path indices, each 0 or 1, so the padding of
\* generateProof returns the proof's arrays unchanged.
C10_ProofHasDepthElements ==
    \A i \in ValidIndices :
        LET proof == createMerkleProof(tree, i) IN
        /\ Len(proof.siblings) = 6
        /\ Len(proof.pathIndices) = 6
        /\ \A k \in 1..Len(proof.pathIndices) : proof.pathIndices[k] \in {0, 1}
        /\ paddedProofSiblings(proof) = proof.siblings
        /\ paddedProofIndices(proof) = proof.pathIndices

\* C10 witness: a tree with leaves at indices whose paths go right at the
\* first and at the last level, so path indices 0 and 1 both occur.
C10_Witness ==
    /\ getTreeSize(tree) = Capacity
    /\ createMerkleProof(tree, Capacity - 1).pathIndices = <<1, 1, 1, 1, 1, 1>>
    /\ createMerkleProof(tree, 0).pathIndices = <<0, 0, 0, 0, 0, 0>>

-----------------------------------------------------------------------------
(* Properties of two accumulators, checked under SpecPair.                 *)

RECURSIVE MerkleFold(_)
\* The root of a full row of nodes: pairs hashed level by level.
MerkleFold(row) ==
    IF Len(row) = 1 THEN row[1]
    ELSE MerkleFold([i \in 1..(Len(row) \div 2) |->
                        poseidon2(<<row[2 * i - 1], row[2 * i]>>)])

\* The root of the depth-6 binary tree whose first leaves are the given
\* sequence and whose other leaves are zero.
RootOfLeaves(leaves) ==
    MerkleFold([i \in 1..64 |-> IF i <= Len(leaves) THEN leaves[i] ELSE BigInt(0)])

IsPermutation(s, t) ==
    /\ Len(s) = Len(t)
    /\ \A c \in Commitments :
           Cardinality({ i \in 1..Len(s) : s[i] = c })
               = Cardinality({ i \in 1..Len(t) : t[i] = c })

\* C9: the root is a function of the ordered leaf sequence only, and it is
\* order-sensitive: two trees given the same leaves in two different orders
\* have different roots (the same order gives the same root); reading the
\* root does not change the tree.
C9_RootIsFunctionOfLeafOrder ==
    /\ [](/\ getMerkleRoot(treeA) = toString(RootOfLeaves(given.A))
          /\ getMerkleRoot(treeB) = toString(RootOfLeaves(given.B))
          /\ given.A = given.B => getMerkleRoot(treeA) = getMerkleRoot(treeB)
          /\ (IsPermutation(given.A, given.B) /\ given.A # given.B)
                 => getMerkleRoot(treeA) # getMerkleRoot(treeB))
    /\ [][treeCall'.fn = "getMerkleRoot" =>
              /\ treeA' = treeA
              /\ treeB' = treeB
              /\ treeCall'.ret =
                     getMerkleRoot(IF treeCall'.which = "A" THEN treeA ELSE treeB)]_vars

\* C9 witness: two trees hold the same two distinct leaves in opposite
\* orders, one built by the constructor and one by insertions, and a root
\* was read.
C9_Witness ==
    /\ Len(given.A) = 2
    /\ given.A[1] # given.A[2]
    /\ given.B = <<given.A[2], given.A[1]>>
    /\ getTreeSize(treeA) = 2
    /\ getTreeSize(treeB) = 2
    /\ treeCall.fn = "getMerkleRoot"
    /\ getMerkleRoot(treeA) # getMerkleRoot(treeB)

-----------------------------------------------------------------------------
(* Further properties of the accumulator.                                  *)

\* C11: createMerkleProof(tree, index) fails with the out-of-range error
\* and returns no proof for every index that is negative or not below the
\* number of leaves inserted.
C11_OutOfRangeIndexFails ==
    (/\ treeCall.fn = "createMerkleProof"
     /\ (treeCall.index < 0 \/ treeCall.index >= Len(inserted)))
        => /\ treeCall.outcome = "The leaf does not exist in this tree"
           /\ treeCall.ret = Undefined

\* C11 witness: a proof was asked for the index right after the last leaf
\* of a tree that holds leaves, and the call failed.
C11_Witness ==
    /\ treeCall.fn = "createMerkleProof"
    /\ Len(inserted) >= 1
    /\ treeCall.index = Len(inserted)
    /\ treeCall.outcome = "The leaf does not exist in this tree"

\* The leaves inserted after the kept proof was made.
InsertedSinceHeld == SubSeq(inserted, held.size + 1, Len(inserted))

\* C12 as stated: after any later insertLeaf, whatever the value inserted,
\* the kept proof no longer verifies against the tree's new root.
C12_StaleAfterAnyInsert ==
    (held.kept /\ Len(inserted) > held.size)
        => ~verifyInclusion(getMerkleRoot(tree), held.leaf, held.proof)

\* C12 amended: the kept proof verifies against the root it was made at,
\* and against the tree's current root exactly when that root is still the
\* same; the root changes as soon as a value other than the zero value 0
\* has been inserted since.
C12_StaleAfterNonZeroInsert ==
    held.kept =>
        /\ verifyInclusion(held.root, held.leaf, held.proof)
        /\ verifyInclusion(getMerkleRoot(tree), held.leaf, held.proof)
               <=> (getMerkleRoot(tree) = held.root)
        /\ (\E k \in 1..Len(InsertedSinceHeld) :
               InsertedSinceHeld[k] # BigInt(MERKLE_TREE_ZERO_VALUE))
               => ~verifyInclusion(getMerkleRoot(tree), held.leaf, held.proof)

\* C12 witness: a proof was kept, then a non-zero leaf was inserted, and
\* the kept proof fails against the new root.
C12_Witness ==
    /\ held.kept
    /\ Len(inserted) = held.size + 1
    /\ inserted[Len(inserted)] # BigInt(MERKLE_TREE_ZERO_VALUE)
    /\ treeCall.fn = "insertLeaf"
    /\ ~verifyInclusion(getMerkleRoot(tree), held.leaf, held.proof)

-----------------------------------------------------------------------------
(* Properties of proof generation, checked under SpecProver.               *)

\* The commitment of a generateProof call.
CallCommitment ==
    poseidon3(<<treeCall.publicInputs.policyId,
                treeCall.privateInputs.passengerHash,
                treeCall.privateInputs.salt>>)

IsLeaf(c) == \E i \in 1..Len(inserted) : inserted[i] = c

\* C13: generateProof constructs a proof only for a commitment that is
\* already a leaf of the tree: when the commitment is not in the tree the
\* call throws "Failed to generate proof: ..." and returns no ProofResult,
\* the cause being "Policy commitment not found in merkle tree" whenever
\* the backend could be created.
C13_NoProofForMissingCommitment ==
    (treeCall.fn = "generateProof" /\ ~IsLeaf(CallCommitment)) =>
        /\ treeCall.run.error.thrown
        /\ treeCall.run.error.prefix = "Failed to generate proof: "
        /\ treeCall.run.result = Undefined
        /\ treeCall.env.apiCreated =>
               treeCall.run.error.cause = "Policy commitment not found in merkle tree"

\* C13 witness: the tree holds leaves, none of them the commitment of the
\* call, the backend was created, and the call threw.
C13_Witness ==
    /\ treeCall.fn = "generateProof"
    /\ Len(inserted) >= 1
    /\ ~IsLeaf(CallCommitment)
    /\ treeCall.env.apiCreated
    /\ treeCall.run.error.thrown
    /\ treeCall.run.error.cause = "Policy commitment not found in merkle tree"

\* C14: for every successful generateProof the returned nullifierHash is
\* H1(H2(C, salt)) with C = H3(policyId, passengerHash, salt) in that
\* argument order, and C is the leaf whose Merkle path is fed to the circuit.
C14_NullifierHashOfCommitment ==
    (treeCall.fn = "generateProof" /\ ~treeCall.run.error.thrown) =>
        LET C    == CallCommitment
            salt == treeCall.privateInputs.salt
            run  == treeCall.run
            path == createMerkleProof(tree, run.leafIndex)
        IN  /\ run.result.publicOutputs.nullifierHash
                   = toString(poseidon1(<<poseidon2(<<C, salt>>)>>))
            /\ run.leafIndex \in 0..(Len(inserted) - 1)
            /\ inserted[run.leafIndex + 1] = C
            /\ run.fed.private_inputs.merkle_proof_siblings = path.siblings
            /\ run.fed.private_inputs.merkle_proof_indices = path.pathIndices
            /\ verifyInclusion(getMerkleRoot(tree), C, path)

\* C14 witness: a proof was generated for a commitment that is the second
\* leaf of the tree.
C14_Witness ==
    /\ treeCall.fn = "generateProof"
    /\ ~treeCall.run.error.thrown
    /\ treeCall.run.leafIndex = 1
    /\ inserted[2] = CallCommitment

\* C15: nullifier derivation is deterministic and unique: of two
\* derivations, the same (commitment, salt) pair gives the same nullifier
\* and nullifier hash, and two distinct pairs give different nullifiers.
C15_NullifierUnique ==
    (treeCall.fn = "generateNullifier" /\ treeCall.before.made) =>
        LET same == /\ treeCall.policyCommitment = treeCall.before.policyCommitment
                    /\ treeCall.salt = treeCall.before.salt
        IN  /\ same => /\ treeCall.nullifier = treeCall.before.nullifier
                       /\ treeCall.nullifierHash = treeCall.before.nullifierHash
            /\ ~same => treeCall.nullifier # treeCall.before.nullifier

\* C15 witness: two derivations for the same commitment and two different
\* salts, with different nullifiers.
C15_Witness ==
    /\ treeCall.fn = "generateNullifier"
    /\ treeCall.before.made
    /\ treeCall.policyCommitment = treeCall.before.policyCommitment
    /\ treeCall.salt # treeCall.before.salt
    /\ treeCall.nullifier # treeCall.before.nullifier

\* C16: the public-input vector handed to the on-chain verifier and to
\* claim is exactly the two-element ordered list [policyTreeRoot,
\* nullifierHash] of the ProofResult, each encoded as a 32-byte value.
C16_PublicInputsAreRootAndNullifierHash ==
    (treeCall.fn \in {"verifyZKProofOnChain", "submitClaimOnChain"}) =>
        LET handed  == treeCall.args.publicInputs
            outputs == treeCall.proofResult.publicOutputs
        IN  /\ Len(handed) = 2
            /\ handed[1] = [hex |-> ParseBigInt(outputs.policyTreeRoot), size |-> 32]
            /\ handed[2] = [hex |-> ParseBigInt(outputs.nullifierHash), size |-> 32]

\* C16 witness: a proof result was handed to the verifier and then to
\* claim, and its nullifier hash is in the second place.
C16_Witness ==
    /\ treeCall.fn = "submitClaimOnChain"
    /\ Len(treeCall.args.publicInputs) = 2
    /\ treeCall.args.publicInputs[2].hex
           = poseidon1(<<poseidon2(<<inserted[1], BigInt(2)>>)>>)

-----------------------------------------------------------------------------
(* Properties of concurrent requests, checked under SpecTasks.             *)

InsertTasks == { id \in Tasks : IsInsertTask(id) }

\* The insert requests that were given a leaf index.
Placed == { id \in InsertTasks : tasks[id].pc # "idle" /\ tasks[id].assigned >= 0 }

\* C17: under any interleaving of concurrent insert requests on the same
\* tree instance no two inserted leaves are assigned the same leaf index
\* (and a finished insertion's leaf is at its index), and no reader
\* observes a root computed from a half-updated path: every root read is
\* the root of the leaves the tree held when it was read.
C17_NoSharedIndexNoTornRoot ==
    /\ \A a, b \in Placed : a # b => tasks[a].assigned # tasks[b].assigned
    /\ \A a \in Placed :
           tasks[a].pc = "done" => getTreeLeaves(tree)[tasks[a].assigned + 1] = tasks[a].leaf
    /\ \A r \in Tasks \ InsertTasks :
           tasks[r].pc = "done" => tasks[r].root = toString(RootOfLeaves(tasks[r].leaves))

\* C17 witness: two insert requests finished with different indices and a
\* reader saw the root of the tree that holds the first of the two leaves.
C17_Witness ==
    /\ \A id \in InsertTasks : tasks[id].pc = "done" /\ tasks[id].outcome = "ok"
    /\ tasks["insert1"].assigned # tasks["insert2"].assigned
    /\ tasks["read1"].pc = "done"
    /\ Len(tasks["read1"].leaves) = 1
    /\ tasks["read1"].root # getMerkleRoot(tree)

-----------------------------------------------------------------------------
(* Further properties of FlightDelayInsurance, checked under Spec.         *)

\* C18: buyPolicy succeeds only when no holder is recorded for policyId and
\* msg.value > 0, and then records holder = msg.sender, payoutAmount =
\* 3 * msg.value and claimed = false; a buyPolicy for a purchased policyId
\* or with msg.value = 0 reverts and leaves the recorded policies, the
\* stored roots and the balances unchanged.
C18_BuyPolicyRecordsOrReverts ==
    [][chainCall'.fn = "buyPolicy" =>
          LET id     == chainCall'.policyId
              sender == chainCall'.sender
              value  == chainCall'.value
          IN  /\ chainCall'.result = "ok"
                     <=> (policies[id].holder = ZERO_ADDRESS /\ value > 0)
              /\ chainCall'.result = "ok" =>
                     /\ policies'[id].holder = sender
                     /\ policies'[id].payoutAmount = 3 * value
                     /\ policies'[id].claimed = FALSE
                     /\ \A other \in PolicyIds \ {id} : policies'[other] = policies[other]
              /\ chainCall'.result # "ok" =>
                     /\ policies' = policies
                     /\ policyTreeRoots' = policyTreeRoots
                     /\ ethBalance' = ethBalance]_vars

\* C18 witness: an account other than the holder sent a positive value to
\* buy a policyId that is purchased, and the call reverted.
C18_Witness ==
    /\ chainCall.fn = "buyPolicy"
    /\ chainCall.result = "revert"
    /\ chainCall.value > 0
    /\ policies[chainCall.policyId].holder \in Accounts \ {chainCall.sender}
    /\ policyTreeRoots[chainCall.policyId] # ZERO_BYTES32

\* C19: buyPolicyOnChain sends no buyPolicy transaction when the holder it
\* read is the wallet (it returns), sends none and throws when the holder is
\* another non-zero address, and sends exactly one, from the wallet for the
\* policyId, when the holder is the zero address; once the step has returned
\* normally for a policyId, running it again for that policyId sends nothing
\* and leaves the on-chain policies as they were.
C19_BuyPolicyOnChainIdempotent ==
    [][(e2eRun.pc = "read" /\ e2eRun'.pc = "idle") =>
          LET h  == e2eRun.existingHolder
              id == e2eRun.policyId
          IN  /\ h = E2EWallet =>
                     /\ e2eRun'.sent = 0
                     /\ e2eRun'.outcome = "skipped"
                     /\ UNCHANGED chainVars
              /\ h \notin {ZERO_ADDRESS, E2EWallet} =>
                     /\ e2eRun'.sent = 0
                     /\ e2eRun'.outcome = "thrown"
                     /\ UNCHANGED chainVars
              /\ h = ZERO_ADDRESS =>
                     /\ e2eRun'.sent = 1
                     /\ chainCall' # chainCall =>
                            /\ chainCall'.fn = "buyPolicy"
                            /\ chainCall'.sender = E2EWallet
                            /\ chainCall'.policyId = id
                     /\ \A other \in PolicyIds \ {id} : policies'[other] = policies[other]
              /\ id \in e2eRun.returned =>
                     /\ e2eRun'.sent = 0
                     /\ policies' = policies
                     /\ policyTreeRoots' = policyTreeRoots]_vars

\* C19 witness: the step has run twice for one policyId; the first run bought
\* the policy, the second found the wallet as holder and sent nothing.
C19_Witness ==
    /\ e2eRun.runs = 2
    /\ e2eRun.pc = "idle"
    /\ e2eRun.outcome = "skipped"
    /\ e2eRun.sent = 0
    /\ e2eRun.policyId \in e2eRun.returned
    /\ policies[e2eRun.policyId].holder = E2EWallet
    /\ policies[e2eRun.policyId].payoutAmount = 3 * E2E_PREMIUM

-----------------------------------------------------------------------------
(* Properties of the USDC payment authorizations, checked under SpecUsdc.  *)

\* C20: once a transferWithAuthorization for (authorizer, nonce) has
\* succeeded, every later transferWithAuthorization with the same
\* (authorizer, nonce) reverts and changes no balance.
C20_NonceCannotBeReplayed ==
    [][(/\ usdc'.call.fn = "transferWithAuthorization"
        /\ <<usdc'.call.from, usdc'.call.nonce>> \in usdc.settled)
       => /\ usdc'.call.result = "revert"
          /\ usdc'.balanceOf = usdc.balanceOf]_vars

\* C20 witness: inside its validity window, correctly signed and funded, an
\* authorization whose (authorizer, nonce) had already settled was submitted
\* again and reverted.
C20_Witness ==
    /\ usdc.call.fn = "transferWithAuthorization"
    /\ usdc.call.result = "revert"
    /\ <<usdc.call.from, usdc.call.nonce>> \in usdc.settled
    /\ usdc.call.signer = usdc.call.from
    /\ usdc.timestamp > usdc.call.validAfter
    /\ usdc.timestamp < usdc.call.validBefore
    /\ usdc.balanceOf[usdc.call.from] >= usdc.call.value

\* The payments of one payer that settled, and the sum of their values.
PaidBy(u, payer) == {p \in u.paid : p.from = payer}

RECURSIVE SumOfValues(_)
SumOfValues(payments) ==
    IF payments = {} THEN 0
    ELSE LET p == CHOOSE q \in payments : TRUE
         IN  p.value + SumOfValues(payments \ {p})

\* C21: a successful transferWithAuthorization of value v from a payer other
\* than payTo moves exactly v from the payer to PINION_PAYTO and marks its
\* nonce used; after n successful payments of v each, with pairwise distinct
\* nonces, the payer's balance has decreased by exactly n * v; a payment
\* from an account holding less than v reverts and moves nothing.
C21_PaymentMovesExactlyValue ==
    [][usdc'.call.fn = "transferWithAuthorization" =>
          LET from  == usdc'.call.from
              v     == usdc'.call.value
              nonce == usdc'.call.nonce
              user  == "PinionUser"
              mine  == PaidBy(usdc', user)
          IN  /\ (usdc'.call.result = "ok" /\ from # PINION_PAYTO) =>
                     /\ usdc'.balanceOf[from] = usdc.balanceOf[from] - v
                     /\ usdc'.balanceOf[PINION_PAYTO] = usdc.balanceOf[PINION_PAYTO] + v
                     /\ <<from, nonce>> \notin usdc.authorizationState
                     /\ <<from, nonce>> \in usdc'.authorizationState
              /\ usdc.balanceOf[from] < v =>
                     /\ usdc'.call.result = "revert"
                     /\ usdc'.balanceOf = usdc.balanceOf
              /\ Cardinality({p.nonce : p \in mine}) = Cardinality(mine)
              /\ UserUsdc - usdc'.balanceOf[user] = SumOfValues(mine)
              /\ \A value \in UsdcValues :
                     (\A p \in mine : p.value = value) =>
                         UserUsdc - usdc'.balanceOf[user] = Cardinality(mine) * value]_vars

\* C21 witness: two payments of PINION_SKILL_COST by the user, with distinct
\* nonces, have settled and the user holds 2 * PINION_SKILL_COST less; the
\* last call, from an account holding less than the value, reverted.
C21_Witness ==
    /\ Cardinality(PaidBy(usdc, "PinionUser")) = 2
    /\ \A p \in PaidBy(usdc, "PinionUser") : p.value = PINION_SKILL_COST
    /\ usdc.balanceOf["PinionUser"] = UserUsdc - 2 * PINION_SKILL_COST
    /\ usdc.balanceOf[PINION_PAYTO] = 2 * PINION_SKILL_COST
    /\ usdc.call.fn = "transferWithAuthorization"
    /\ usdc.call.result = "revert"
    /\ usdc.call.signer = usdc.call.from
    /\ usdc.balanceOf[usdc.call.from] < usdc.call.value
    /\ usdc.timestamp > usdc.call.validAfter
    /\ usdc.timestamp < usdc.call.validBefore
    /\ <<usdc.call.from, usdc.call.nonce>> \notin usdc.authorizationState

-----------------------------------------------------------------------------
(* The validity window of a payment authorization, checked under SpecWindow. *)

\* The authorization the last call carried, as attempts remembers it.
CallAuthorization(u) ==
    <<u.call.from, u.call.value, u.call.validAfter, u.call.validBefore,
      u.call.nonce, u.call.signer>>

\* C22: a transferWithAuthorization reverts, changing nothing, while block
\* time is not yet after validAfter and once block time has reached
\* validBefore; a signed authorization that was rejected before validAfter
\* succeeds and marks its nonce used when it is submitted again inside the
\* window (its nonce still unused, the payer holding the value).
C22_ValidOnlyInsideWindow ==
    [][usdc'.call.fn = "transferWithAuthorization" =>
          LET call == usdc'.call
              now  == usdc.timestamp
              same == /\ usdc'.balanceOf = usdc.balanceOf
                      /\ usdc'.authorizationState = usdc.authorizationState
          IN  /\ ~(now > call.validAfter) => (call.result = "revert" /\ same)
              /\ ~(now < call.validBefore) => (call.result = "revert" /\ same)
              /\ call.result = "ok" => (now > call.validAfter /\ now < call.validBefore)
              /\ (/\ CallAuthorization(usdc') \in attempts
                  /\ call.signer = call.from
                  /\ now > call.validAfter
                  /\ now < call.validBefore
                  /\ <<call.from, call.nonce>> \notin usdc.authorizationState
                  /\ usdc.balanceOf[call.from] >= call.value)
                 => /\ call.result = "ok"
                    /\ <<call.from, call.nonce>> \in usdc'.authorizationState]_vars

\* C22 witness: an authorization signed by the payer that was rejected before
\* validAfter has, after time advanced, settled and used up its nonce.
C22_Witness ==
    /\ usdc.call.fn = "transferWithAuthorization"
    /\ usdc.call.result = "ok"
    /\ CallAuthorization(usdc) \in attempts
    /\ usdc.timestamp > usdc.call.validAfter
    /\ usdc.timestamp < usdc.call.validBefore
    /\ <<usdc.call.from, usdc.call.nonce>> \in usdc.authorizationState

-----------------------------------------------------------------------------
(* The deployment, checked under SpecDeploy.                               *)

\* The contract created at an address, if any.
CreatedAt(address) ==
    {c \in {deployment.created[i] : i \in 1..Len(deployment.created)} :
        c.address = address}

\* C23: within a run the contracts are created in the order HonkVerifier,
\* FlightDelayInsuranceVerifier, FlightDelayInsurance, each later one
\* constructed with the address of the contract created immediately before
\* it; so the verifier of every FlightDelayInsurance is a created
\* FlightDelayInsuranceVerifier whose verifier is a created HonkVerifier.
C23_DeploymentChain ==
    \A i \in 1..Len(deployment.created) :
        LET c == deployment.created[i] IN
        /\ c.kind = "HonkVerifier" => c.verifier = NoAddress
        /\ c.kind = "FlightDelayInsuranceVerifier" =>
               /\ i > 1
               /\ deployment.created[i - 1].kind = "HonkVerifier"
               /\ c.verifier = deployment.created[i - 1].address
        /\ c.kind = "FlightDelayInsurance" =>
               /\ i > 2
               /\ deployment.created[i - 1].kind = "FlightDelayInsuranceVerifier"
               /\ c.verifier = deployment.created[i - 1].address
               /\ \E v \in CreatedAt(c.verifier) :
                      /\ v.kind = "FlightDelayInsuranceVerifier"
                      /\ \E h \in CreatedAt(v.verifier) : h.kind = "HonkVerifier"

\* C23 witness: a run that stopped early was followed by a complete run, and
\* the script holds the three addresses of the complete run.
C23_Witness ==
    /\ deployment.runs = 2
    /\ deployment.pc = "idle"
    /\ Len(deployment.created) > 3
    /\ deployment.created[Len(deployment.created)].kind = "FlightDelayInsurance"
    /\ deployment.flightDelayInsurance = lastCreated(deployment)
    /\ deployment.flightDelayInsuranceVerifier # NoAddress
    /\ deployment.honkVerifier # NoAddress

-----------------------------------------------------------------------------
(* The shell script's dry-run mode, checked under SpecShell.               *)

\* C24: when the script was started with --dry-run, no deployment
\* transaction is broadcast: no contract is created while DRY_RUN is set.
C24_DryRunBroadcastsNothing ==
    [][shell.DRY_RUN => deployment'.created = deployment.created]_vars

\* C25: in the e2e main run no transaction (buyPolicy, claim) is sent unless
\* both read-only verifier calls returned true; when one of them did not, the
\* run sends nothing and ends with exit code 1; and the claim transaction is
\* only sent after the buyPolicy step has returned (skipped or purchased).
C25_BothVerified ==
    mainRun.isValidHonk = "true" /\ mainRun.isValidDomain = "true"

C25_MainSendsOnlyAfterVerification ==
    /\ [](~C25_BothVerified =>
            /\ mainRun.sent = <<>>
            /\ mainRun.pc \in {"idle", "generate", "verifyHonk", "verifyDomain", "exited"}
            /\ mainRun.pc = "exited" => mainRun.exit = 1)
    /\ [][Len(mainRun'.sent) > Len(mainRun.sent) =>
            /\ C25_BothVerified
            /\ mainRun'.sent[Len(mainRun'.sent)] = "claim" =>
                   /\ mainRun.buyPolicyStep \in {"skipped", "purchased"}
                   /\ mainRun.pc = "claim"]_vars
    /\ (mainRun.pc = "verifyDomain" /\ mainRun.isValidHonk = "false")
           ~> (mainRun.pc = "exited" /\ mainRun.exit = 1)

\* A run whose two verifier calls returned true, that bought the policy and
\* then sent the claim, and an earlier run that ended with code 1.
C25_Witness ==
    /\ C25_BothVerified
    /\ mainRun.sent = <<"buyPolicy", "claim">>
    /\ mainRun.buyPolicyStep = "purchased"
    /\ mainRun.pc = "exited"
    /\ mainRun.exit = 0
    /\ mainRun.runs = 2
    /\ chainCall.fn = "claim"
    /\ chainCall.result = "ok"

\* C26: claim pays out only when the caller is the recorded holder of
\* policyId and the verifier accepts the proof; a claim by another address
\* (also for a policyId never purchased) or with a rejected proof reverts and
\* leaves Policy.claimed and every balance as they were.
C26_ClaimOnlyByHolderWithValidProof ==
    [][chainCall'.fn = "claim" =>
        LET sender == chainCall'.sender
            id     == chainCall'.policyId
        IN  \A publicInputs \in PublicInputVectors :
            \A proof \in ProofsFor(publicInputs) :
                (claim(sender, id, proof, publicInputs) /\ UNCHANGED mainRun) =>
                    LET isHolder == policies[id].holder = sender
                        verified == Verifier_verify(proof, publicInputs)
                    IN  /\ ethBalance' # ethBalance => isHolder /\ verified
                        /\ ~(isHolder /\ verified) =>
                               /\ chainCall'.result \notin {"ok"}
                               /\ policies' = policies
                               /\ ethBalance' = ethBalance]_vars

\* A holder's claim was paid, after a claim on a policy nobody bought
\* reverted with "Not holder".
C26_Witness ==
    /\ chainCall.fn = "claim"
    /\ chainCall.result = "Not holder"
    /\ policies[chainCall.policyId].holder = ZERO_ADDRESS
    /\ \E id \in PolicyIds :
           /\ policies[id].claimed
           /\ ethBalance[policies[id].holder] > InitialEth

\* C27: for every policyId the wei that claim has transferred out, over all
\* calls including those the payee makes while it receives a payout, is at
\* most the policy's payoutAmount, which is 3 times the premium paid.
C27_PayoutAtMostOncePerPolicy ==
    \A id \in PolicyIds :
        /\ paidOut[id] <= policies[id].payoutAmount
        /\ policies[id].holder # ZERO_ADDRESS =>
               policies[id].payoutAmount = 3 * E2E_PREMIUM

\* The holder called claim again for the same policy while receiving its
\* payout; that call reverted with "Already claimed".
C27_Witness ==
    /\ Len(callStack) = 1
    /\ chainCall.fn = "claim"
    /\ chainCall.result = "Already claimed"
    /\ chainCall.policyId = callStack[1][2]
    /\ chainCall.sender = callStack[1][1]
    /\ paidOut[chainCall.policyId] = policies[chainCall.policyId].payoutAmount
    /\ paidOut[chainCall.policyId] > 0

\* C28: after a successful buyPolicy, the holder's claim with a proof the
\* verifier accepts eventually succeeds and the holder is paid the full
\* payoutAmount, whatever the balance of the contract.
C28_HolderIsEventuallyPaid ==
    \A id \in PolicyIds :
        (policies[id].holder # ZERO_ADDRESS /\ ~policies[id].claimed)
            ~> policies[id].claimed

\* C29: on every path through generateProof on which the Barretenberg
\* instance was created (success, circuit-execution or proving error,
\* commitment not found), api.destroy() has been called exactly once when the
\* function returns or throws.
C29_ApiDestroyedExactlyOnce ==
    (treeCall.fn = "generateProof" /\ treeCall.env.apiCreated) =>
        treeCall.run.destroyCalls = 1

\* C30: a failed insertion leaves the accumulator unchanged: when insertLeaf,
\* or insertLeaves with a batch that does not fit, throws because the
\* capacity would be exceeded, the tree's leaves, size and root are the same
\* as before the call.
C30_FailedInsertionChangesNothing ==
    [][(treeCall'.fn \in {"insertLeaf", "insertLeaves"} /\ treeCall'.outcome # "ok") =>
          /\ getTreeLeaves(tree') = getTreeLeaves(tree)
          /\ getTreeSize(tree') = getTreeSize(tree)
          /\ getMerkleRoot(tree') = getMerkleRoot(tree)]_vars

=============================================================================
